---- MODULE Spec2Model ----
(***************************************************************************)
(* A model of the CLARX dark-pattern analysis backend:                     *)
(*   - the trust score aggregator   (backend/detector.py)                  *)
(*   - the rule-based detectors     (backend/detector.py)                  *)
(*   - the two-sample timer check   (backend/scraper/timer_refresh_checker)*)
(*   - the price / MRP extractor    (backend/scraper/price_extractor.py)   *)
(*                                                                         *)
(* Each component has its own specification (SpecTrust, SpecDetect,        *)
(* SpecTimer, SpecPrice).  All of them share the variables below; a        *)
(* specification leaves the variables of the other components at their     *)
(* idle values.                                                            *)
(*                                                                         *)
(* Encodings.  Python floats that are multiples of 0.5 (the trust score)   *)
(* are kept as integers in units of 0.5.  Prices are whole rupees.  The    *)
(* Python value None is the integer None (-1); every figure the page can   *)
(* yield is >= 0 because the regexes only match digits.                    *)
(***************************************************************************)
EXTENDS Integers, Sequences, FiniteSets, TLC

VARIABLES
    violations,    \* the list handed to calculate_trust_score
    trust_data,    \* its return value, NoTrust before the call
    dpage,         \* the evidence the detectors read from one page
    detected,      \* detect_all's return value, or NotRun
    timer,         \* check_timer_reset: the two samples and the verdict
    page,          \* the evidence the price extractor reads from one page
    pc,            \* extract_price_and_mrp_detailed: the step reached
    px             \* extract_price_and_mrp_detailed: its local variables

vars == <<violations, trust_data, dpage, detected, timer, page, pc, px>>

None == -1

\* Python truthiness of an optional number: None and 0 are falsy.
Truthy(v) == v # None /\ v # 0

RECURSIVE SeqsUpTo(_, _)
\* All sequences over S of length at most n.
SeqsUpTo(S, n) ==
    IF n = 0 THEN {<< >>}
    ELSE LET shorter == SeqsUpTo(S, n - 1)
         IN shorter \cup {Append(s, x) : s \in {t \in shorter : Len(t) = n - 1}, x \in S}

Range(s) == {s[i] : i \in 1..Len(s)}

\* min(...) and max(...) of a non-empty list of numbers.
Min(s) == CHOOSE x \in Range(s) : \A y \in Range(s) : x <= y
Max(s) == CHOOSE x \in Range(s) : \A y \in Range(s) : x >= y

(***************************************************************************)
(* Trust score aggregator: DarkPatternDetector.calculate_trust_score       *)
(***************************************************************************)

\* The violation types: the five keys of the weights dict, and three types
\* that are not keys of it.
KnownTypes == {"pre_ticked_addon", "fake_timer", "drip_pricing", "fake_scarcity",
               "confirm_shaming"}
OtherTypes == {"scarcity", "mrp_inflation", "unrecognized"}
ViolationTypes == KnownTypes \cup OtherTypes
Severities == {"high", "medium", "low"}

\* The longest violations list drawn.
MaxViolations == 3

weights_dropped_default(vtype) ==
    CASE vtype = "pre_ticked_addon" -> 2
      [] vtype = "fake_timer" -> 2
      [] vtype = "drip_pricing" -> 1
      [] vtype = "fake_scarcity" -> 1
      [] vtype = "confirm_shaming" -> 1
      [] OTHER -> 0

\* weights.get(vtype, 1)
weights(vtype) ==
    CASE vtype = "pre_ticked_addon" -> 2
      [] vtype = "fake_timer" -> 2
      [] vtype = "drip_pricing" -> 1
      [] vtype = "fake_scarcity" -> 1
      [] vtype = "confirm_shaming" -> 1
      [] OTHER -> 1

\* A multiplier table in which low counts as much as medium.
severity_multiplier_low_as_medium(severity) ==
    CASE severity = "high" -> 3
      [] severity = "medium" -> 2
      [] severity = "low" -> 2
      [] OTHER -> 2

\* {"high": 1.5, "medium": 1.0, "low": 0.5}.get(severity, 1.0), in units of 0.5
severity_multiplier(severity) ==
    CASE severity = "high" -> 3
      [] severity = "medium" -> 2
      [] severity = "low" -> 1
      [] OTHER -> 2

RECURSIVE total_score(_)
\* The loop over the violations: total_score += weight * severity_multiplier,
\* in units of 0.5.
total_score(vs) ==
    IF vs = << >> THEN 0
    ELSE total_score(Tail(vs)) + weights(Head(vs).type) * severity_multiplier(Head(vs).severity)

grade_of_strict_bands(score) ==
    IF score = 0 THEN "A"
    ELSE IF score < 4 THEN "B"
    ELSE IF score < 8 THEN "C"
    ELSE IF score < 12 THEN "D"
    ELSE "F"

\* The if/elif chain that maps the score (in units of 0.5) to the grade:
\* == 0, <= 2, <= 4, <= 6, else.
grade_of(score) ==
    IF score = 0 THEN "A"
    ELSE IF score <= 4 THEN "B"
    ELSE IF score <= 8 THEN "C"
    ELSE IF score <= 12 THEN "D"
    ELSE "F"

summary_of(grade) ==
    CASE grade = "A" -> "Low Risk"
      [] grade = "B" -> "Moderate Risk"
      [] grade \in {"C", "D"} -> "High Manipulation Detected"
      [] OTHER -> "Critical Manipulation"

calculate_trust_score(vs) ==
    LET score == total_score(vs)
    IN [grade |-> grade_of(score), summary |-> summary_of(grade_of(score)), score |-> score]

NoTrust == [grade |-> "-", summary |-> "-", score |-> 0]

Violation == [type : ViolationTypes, severity : Severities]

\* The idle values of the other components' variables.
IdleDetect == dpage = << >> /\ detected = << >>
IdleTimer == timer = << >>
IdlePrice == page = << >> /\ pc = "idle" /\ px = << >>

InitTrust ==
    /\ violations \in SeqsUpTo(Violation, MaxViolations)
    /\ trust_data = NoTrust
    /\ IdleDetect /\ IdleTimer /\ IdlePrice

CalculateTrustScore ==
    /\ trust_data = NoTrust
    /\ trust_data' = calculate_trust_score(violations)
    /\ UNCHANGED <<violations, dpage, detected, timer, page, pc, px>>

NextTrust == CalculateTrustScore

SpecTrust == InitTrust /\ [][NextTrust]_vars

Scored == trust_data # NoTrust

\* ---- C1 ----
\* The claim's own statement of a finding's contribution, in units of 0.5:
\* weight 2 for pre_ticked_addon and fake_timer and 1 for every other type,
\* times 1.5 / 1.0 / 0.5 for high / medium / low.
RECURSIVE C1_ClaimedSum(_)
C1_ClaimedSum(vs) ==
    IF vs = << >> THEN 0
    ELSE C1_ClaimedSum(Tail(vs))
         + (IF Head(vs).type \in {"pre_ticked_addon", "fake_timer"} THEN 2 ELSE 1)
           * (IF Head(vs).severity = "high" THEN 3
              ELSE IF Head(vs).severity = "medium" THEN 2 ELSE 1)

\* C1: for every list of findings the score calculate_trust_score returns is
\* the sum over the findings of weight(type) x multiplier(severity), with
\* weight 2 for pre_ticked_addon and fake_timer, 1 for any other type, and
\* multiplier 1.5 / 1.0 / 0.5 for high / medium / low.
C1_ScoreIsWeightedSum ==
    Scored => trust_data.score = C1_ClaimedSum(violations)

\* A scored list that holds a weight-2 type, a type that is a key of the
\* weights dict with weight 1, and a type that is no key of it.
C1_Witness ==
    /\ Scored
    /\ Len(violations) = 3
    /\ violations[1].type = "fake_timer" /\ violations[1].severity = "high"
    /\ violations[2].type = "mrp_inflation" /\ violations[2].severity = "low"
    /\ violations[3].type = "drip_pricing" /\ violations[3].severity = "medium"
    /\ trust_data.score = 9

\* ---- C2 ----
\* C2: the grade is A for score 0, B for 0 < score <= 2, C for 2 < score <= 4,
\* D for 4 < score <= 6 and F above 6 (scores in units of 0.5 here), so every
\* score is in exactly one band and 2, 4 and 6 get B, C and D.
C2_GradeBands ==
    Scored =>
        LET s == trust_data.score
            g == trust_data.grade
        IN /\ (g = "A") <=> (s = 0)
           /\ (g = "B") <=> (0 < s /\ s <= 4)
           /\ (g = "C") <=> (4 < s /\ s <= 8)
           /\ (g = "D") <=> (8 < s /\ s <= 12)
           /\ (g = "F") <=> (s > 12)
           /\ g \in {"A", "B", "C", "D", "F"}

\* A list whose score is exactly 6.0 (the D/F boundary) has been graded D.
C2_Witness ==
    /\ Scored
    /\ trust_data.score = 12
    /\ trust_data.grade = "D"

(***************************************************************************)
(* Two-sample timer check: scraper/timer_refresh_checker.py                *)
(***************************************************************************)

\* The largest minutes figure a sampled countdown shows.
MaxMinutes == 2

\* What a fetched page shows as its countdown: nothing, HH:MM:SS or HH:MM.
\* The seconds figures put the samples 0, 1, 10 and 11 seconds apart, and
\* a minute apart.
ClockSeconds == {0, 5, 49, 50, 59}
Clocks ==
    [fmt : {"hms"}, h : {0}, m : 0..MaxMinutes, s : ClockSeconds]
    \cup [fmt : {"hm"}, h : {0, 1}, m : 0..MaxMinutes, s : {0}]
NoClock == [fmt |-> "none", h |-> 0, m |-> 0, s |-> 0]

\* extract_timer_value: the first format that matches, converted to seconds.
extract_timer_value(html) ==
    CASE html.fmt = "hms" -> html.h * 3600 + html.m * 60 + html.s
      [] html.fmt = "hm" -> html.h * 3600 + html.m * 60
      [] OTHER -> None

Abs(x) == IF x < 0 THEN -x ELSE x

reset_verdict_scraper_rule(t1, t2) ==
    t1 # None /\ t2 # None /\ (t2 > t1 \/ Abs(t2 - t1) > 300)

\* The verdict of check_timer_reset from the two extracted values.
reset_verdict(t1, t2) ==
    IF t1 # None /\ t2 # None
    THEN IF t2 > t1 THEN TRUE
         ELSE IF t1 - t2 > 10 THEN TRUE
         ELSE IF Abs(t1 - t2) < 1 THEN TRUE
         ELSE FALSE
    ELSE FALSE

\* check_timer_reset's position and locals.  returned is meaningful once
\* pc = "done"; raised records that the except branch produced it.
TimerStart ==
    [pc |-> "fetch1", t1 |-> None, t2 |-> None, fetches |-> 0, waited |-> FALSE,
     extracted |-> 0, raised |-> FALSE, returned |-> FALSE]

IdleTrust == violations = << >> /\ trust_data = NoTrust

InitTimer ==
    /\ timer = TimerStart
    /\ IdleTrust /\ IdleDetect /\ IdlePrice

\* html1 = get_page_source(url); t1 = extract_timer_value(html1)
TimerFetch1 ==
    /\ timer.pc = "fetch1"
    /\ \E html \in Clocks \cup {NoClock} :
         timer' = [timer EXCEPT !.pc = "sleep", !.fetches = @ + 1, !.extracted = @ + 1,
                                !.t1 = extract_timer_value(html)]
    /\ UNCHANGED <<violations, trust_data, dpage, detected, page, pc, px>>

\* A variant that goes on to the second fetch without having waited.
TimerSleepSkipped ==
    /\ timer.pc = "sleep"
    /\ timer' = [timer EXCEPT !.pc = "fetch2"]
    /\ UNCHANGED <<violations, trust_data, dpage, detected, page, pc, px>>

\* time.sleep(2)
TimerSleep ==
    /\ timer.pc = "sleep"
    /\ timer' = [timer EXCEPT !.pc = "fetch2", !.waited = TRUE]
    /\ UNCHANGED <<violations, trust_data, dpage, detected, page, pc, px>>

\* html2 = get_page_source(url); t2 = extract_timer_value(html2)
TimerFetch2 ==
    /\ timer.pc = "fetch2"
    /\ \E html \in Clocks \cup {NoClock} :
         timer' = [timer EXCEPT !.pc = "verdict", !.fetches = @ + 1, !.extracted = @ + 1,
                                !.t2 = extract_timer_value(html)]
    /\ UNCHANGED <<violations, trust_data, dpage, detected, page, pc, px>>

check_timer_reset_except_reraises == [propagates |-> TRUE, returned |-> FALSE]

check_timer_reset_except_suspicious == [propagates |-> FALSE, returned |-> TRUE]

\* except Exception: return False
check_timer_reset_except == [propagates |-> FALSE, returned |-> FALSE]

\* get_page_source raises (driver start, navigation): the fetch was attempted,
\* and the except branch decides the outcome (pc "escaped": the exception
\* leaves check_timer_reset).
TimerFetchRaises ==
    /\ timer.pc \in {"fetch1", "fetch2"}
    /\ timer' = [timer EXCEPT !.pc = IF check_timer_reset_except.propagates
                                     THEN "escaped" ELSE "done",
                              !.fetches = @ + 1, !.raised = TRUE,
                              !.returned = check_timer_reset_except.returned]
    /\ UNCHANGED <<violations, trust_data, dpage, detected, page, pc, px>>

\* The comparison of the two samples and the return.
TimerVerdict ==
    /\ timer.pc = "verdict"
    /\ timer' = [timer EXCEPT !.pc = "done", !.returned = reset_verdict(timer.t1, timer.t2)]
    /\ UNCHANGED <<violations, trust_data, dpage, detected, page, pc, px>>

NextTimer ==
    \/ TimerFetch1
    \/ TimerSleep
    \/ TimerFetch2
    \/ TimerFetchRaises
    \/ TimerVerdict

SpecTimer == InitTimer /\ [][NextTimer]_vars

\* ---- C4 ----
\* C4: when both samples yield a timer value, check_timer_reset returns True
\* if t2 > t1, if t1 - t2 > 10 or if t1 = t2, and False when the timer dropped
\* by 1 to 10 seconds.
C4_TimerVerdictRule ==
    (timer.pc = "done" /\ ~timer.raised /\ timer.t1 # None /\ timer.t2 # None) =>
        /\ timer.returned <=>
             (timer.t2 > timer.t1 \/ timer.t1 - timer.t2 > 10 \/ timer.t1 = timer.t2)
        /\ (timer.t1 - timer.t2 >= 1 /\ timer.t1 - timer.t2 <= 10) => ~timer.returned

\* The samples 120 s and then 125 s have been judged, and flagged.
C4_Witness ==
    /\ timer.pc = "done"
    /\ ~timer.raised
    /\ timer.t1 = 120
    /\ timer.t2 = 125
    /\ timer.returned

(***************************************************************************)
(* The /analyze pipeline: Scraper._analyze_timer, then                     *)
(* DarkPatternDetector.detect_all, then calculate_trust_score              *)
(* (backend/scraper.py, backend/detector.py, backend/app.py)               *)
(*                                                                         *)
(* The visible text of a page is a set of phrases, each a sequence of      *)
(* lower-case words; "kw in text" is the keyword's words occurring         *)
(* contiguously in a phrase.  "<num>" in a pattern stands for \d+.         *)
(***************************************************************************)

NumberTokens == {"1", "2", "3", "10"}

TokMatch(pt, tok) == IF pt = "<num>" THEN tok \in NumberTokens ELSE pt = tok

\* The pattern's words occur contiguously in the phrase.
IsInfix(pattern, phrase) ==
    \E i \in 0..(Len(phrase) - Len(pattern)) :
        \A j \in 1..Len(pattern) : TokMatch(pattern[j], phrase[i + j])

\* kw in text, re.search(pattern, text)
InText(pattern, text) == \E phrase \in text : IsInfix(pattern, phrase)

\* re.search(a.*b, text): a, and b somewhere after it (text is one line per phrase).
InOrder(a, b, text) ==
    \E phrase \in text : \E k \in 1..Len(phrase) :
        /\ IsInfix(a, SubSeq(phrase, 1, k))
        /\ IsInfix(b, SubSeq(phrase, k + 1, Len(phrase)))

PhraseStock == <<"only", "2", "left", "in", "stock">>
PhrasePrice == <<"only", "rs499", "hurry">>
PhraseFee == <<"handling", "fee", "at", "checkout">>
PhraseShame == <<"no", "thanks", "i", "dont", "want", "savings">>
PhraseWarranty == <<"extended", "warranty">>
PhraseGift == <<"gift", "wrap">>

\* The body text drawn for a page, apart from its checkbox labels.
TextChoices ==
    {{}, {PhraseStock}, {PhrasePrice}, {PhraseFee}, {PhraseShame}, {PhraseStock, PhraseShame}}

\* The longest list of checkbox inputs drawn for a page.
MaxBoxes == 2

\* <input type="checkbox"> with its checked attribute absent, bare (checked)
\* or written checked="checked", inside a parent whose text is the label.
CheckBox == [checked : {"absent", "bare", "checked"}, label : {PhraseWarranty, PhraseGift}]

\* The countdown a page load shows.
Clock120 == [fmt |-> "hms", h |-> 0, m |-> 2, s |-> 0]
Clock119 == [fmt |-> "hms", h |-> 0, m |-> 1, s |-> 59]
Clock125 == [fmt |-> "hms", h |-> 0, m |-> 2, s |-> 5]
Clock109 == [fmt |-> "hms", h |-> 0, m |-> 1, s |-> 49]

\* Markup hints in the html: a "countdown" class, a setInterval script, a
\* data-expiry attribute.
HintChoices == {{}, {"countdown"}, {"setInterval"}, {"countdown", "data-expiry"}}

DetectPages ==
    [text : TextChoices,
     boxes : SeqsUpTo(CheckBox, MaxBoxes),
     selected_addon_options : {0, 1},
     small_print_fee : BOOLEAN,
     clock : {NoClock, Clock120},
     hints : HintChoices]

\* soup.get_text().lower(): the body phrases and every checkbox label.
page_text(pg) == pg.text \cup {pg.boxes[i].label : i \in 1..Len(pg.boxes)}

\* re.search(r'\d{1,2}:\d{2}:\d{2}', text)
HasHmsClock(pg) == pg.clock.fmt = "hms"

scarcity_keywords ==
    <<<<"only">>, <<"left", "in", "stock">>, <<"hurry">>, <<"selling", "fast">>,
      <<"limited", "stock">>, <<"only", "a", "few", "left">>, <<"almost", "gone">>,
      <<"last", "few", "items">>, <<"limited", "time">>, <<"stock", "running", "out">>,
      <<"be", "quick">>>>

inventory_patterns ==
    {<<"only", "<num>", "left">>, <<"<num>", "in", "stock">>, <<"only", "<num>", "available">>}

\* DarkPatternDetector.detect_fake_scarcity
detect_fake_scarcity(pg) ==
    LET text == page_text(pg)
        found_keywords == {i \in 1..Len(scarcity_keywords) : InText(scarcity_keywords[i], text)}
        timer_with_scarcity ==
            /\ HasHmsClock(pg)
            /\ \E kw \in {<<"only">>, <<"left">>, <<"hurry">>, <<"limited">>} : InText(kw, text)
        inventory_found == \E pat \in inventory_patterns : InText(pat, text)
        is_detected == Cardinality(found_keywords) >= 2 \/ timer_with_scarcity \/ inventory_found
        confidence == IF timer_with_scarcity /\ inventory_found THEN "high" ELSE "medium"
    IN IF is_detected
       THEN [detected |-> TRUE, confidence |-> confidence,
             severity |-> IF confidence = "high" THEN "high" ELSE "medium"]
       ELSE [detected |-> FALSE, confidence |-> "medium", severity |-> "medium"]

fee_keywords ==
    {<<"handling", "fee">>, <<"processing", "fee">>, <<"convenience", "fee">>,
     <<"service", "charge">>, <<"delivery", "charge">>, <<"shipping", "fee">>,
     <<"taxes", "extra">>, <<"gst", "extra">>}

checkout_indicators == {<<"checkout">>, <<"cart">>, <<"payment">>, <<"billing">>}

\* DarkPatternDetector.detect_drip_pricing
detect_drip_pricing(pg) ==
    LET text == page_text(pg)
        fee_mentions == {kw \in fee_keywords : InText(kw, text)}
        has_checkout_context == \E ind \in checkout_indicators : InText(ind, text)
        hidden_fees == pg.small_print_fee
        is_detected == (fee_mentions # {} /\ has_checkout_context) \/ hidden_fees
    IN [detected |-> is_detected,
        confidence |-> IF hidden_fees THEN "high" ELSE "medium",
        severity |-> "medium"]

addon_keywords ==
    {<<"warranty">>, <<"insurance">>, <<"protection">>, <<"extended">>, <<"add-on">>,
     <<"accessory">>}

\* soup.find_all('input', {'type': 'checkbox', 'checked': True}) extended by
\* soup.find_all('input', {'type': 'checkbox', 'checked': 'checked'}): the
\* first matches any checked attribute, the second the value "checked".
checked_inputs(pg) ==
    SelectSeq(pg.boxes, LAMBDA b : b.checked # "absent")
    \o SelectSeq(pg.boxes, LAMBDA b : b.checked = "checked")

pre_ticked_addons_any_checked(pg) == Len(checked_inputs(pg)) + pg.selected_addon_options

\* The pre_ticked_addons list: one entry per listed input whose parent text
\* holds an add-on keyword, and one per selected add-on option.
pre_ticked_addons(pg) ==
    Len(SelectSeq(checked_inputs(pg),
                  LAMBDA b : \E kw \in addon_keywords : IsInfix(kw, b.label)))
    + pg.selected_addon_options

pre_ticked_severity_medium == "medium"

\* The severity detect_pre_ticked_addons reports.
pre_ticked_severity == "low"

\* DarkPatternDetector.detect_pre_ticked_addons
detect_pre_ticked_addons(pg) ==
    [detected |-> pre_ticked_addons(pg) > 0,
     confidence |-> IF pre_ticked_addons(pg) >= 2 THEN "high" ELSE "medium",
     severity |-> pre_ticked_severity]

shaming_keywords ==
    {<<"no", "thanks", "i", "dont", "want", "savings">>, <<"decline", "offer">>,
     <<"skip", "this", "deal">>, <<"ill", "pass", "on", "savings">>}

\* DarkPatternDetector.detect_confirm_shaming
detect_confirm_shaming(pg) ==
    LET text == page_text(pg)
        by_pattern ==
            \/ InOrder(<<"no", "thanks">>, <<"i", "dont", "want">>, text)
            \/ InOrder(<<"no", "thanks">>, <<"ill", "pass">>, text)
            \/ InOrder(<<"decline">>, <<"savings">>, text)
            \/ InOrder(<<"skip">>, <<"savings">>, text)
            \/ InOrder(<<"no">>, <<"im", "not", "interested">>, text)
            \/ InOrder(<<"no">>, <<"not", "for", "me">>, text)
        by_keyword == \E kw \in shaming_keywords : InText(kw, text)
    IN [detected |-> by_pattern \/ by_keyword, confidence |-> "medium", severity |-> "low"]

\* Scraper._get_timer_value: HH:MM:SS only.
get_timer_value(clock) ==
    IF clock.fmt = "hms" THEN clock.h * 3600 + clock.m * 60 + clock.s ELSE None

\* Scraper._analyze_timer: a timer pattern in the text or a timer keyword in
\* the html.
timer_found(pg) ==
    \/ pg.clock.fmt \in {"hms", "hm"}
    \/ "countdown" \in pg.hints

\* new_timer and (new_timer > initial_timer or abs(new_timer - initial_timer) > 300)
scraper_resets_on_refresh(initial_timer, new_timer) ==
    /\ Truthy(new_timer)
    /\ (new_timer > initial_timer \/ Abs(new_timer - initial_timer) > 300)

\* The timer_analysis dict _analyze_timer returns once a timer was found.
timer_analysis_of(pg, resets_on_refresh) ==
    LET has_js_timer == pg.hints \cap {"setInterval", "setTimeout", "countdown", "timer"} # {}
        has_server_timestamp == "data-expiry" \in pg.hints
        client_side_only == has_js_timer /\ ~has_server_timestamp
        fake_timer == resets_on_refresh \/ client_side_only
    IN [present |-> TRUE,
        resets_on_refresh |-> resets_on_refresh,
        client_side_only |-> client_side_only,
        fake_timer |-> fake_timer,
        confidence |-> IF resets_on_refresh /\ client_side_only THEN "high"
                       ELSE IF fake_timer THEN "medium" ELSE "low"]

NoTimer ==
    [present |-> FALSE, resets_on_refresh |-> FALSE, client_side_only |-> FALSE,
     fake_timer |-> FALSE, confidence |-> "low"]

RECURSIVE Concat(_)
Concat(ss) == IF ss = << >> THEN << >> ELSE Head(ss) \o Concat(Tail(ss))

\* DarkPatternDetector.detect_all: the violations in detector order.
detect_all(pg, timer_analysis) ==
    LET scarcity == detect_fake_scarcity(pg)
        drip == detect_drip_pricing(pg)
        pre_ticked == detect_pre_ticked_addons(pg)
        shaming == detect_confirm_shaming(pg)
        V(t, r) == [type |-> t, severity |-> r.severity, confidence |-> r.confidence]
    IN Concat(<<
         IF scarcity.detected THEN <<V("fake_scarcity", scarcity)>> ELSE << >>,
         IF timer_analysis.fake_timer
         THEN <<[type |-> "fake_timer", severity |-> "high",
                 confidence |-> timer_analysis.confidence]>>
         ELSE << >>,
         IF drip.detected THEN <<V("drip_pricing", drip)>> ELSE << >>,
         IF pre_ticked.detected THEN <<V("pre_ticked_addon", pre_ticked)>> ELSE << >>,
         IF shaming.detected THEN <<V("confirm_shaming", shaming)>> ELSE << >> >>)

\* The detectors detect_all calls, in call order (the fake_timer step reads
\* scraper_result's timer_analysis).
DetectorOrder ==
    <<"fake_scarcity", "fake_timer", "drip_pricing", "pre_ticked_addon", "confirm_shaming">>

\* What /analyze answers: the HTTP status, the error code ("none" on success)
\* and whether the body carries the report (trust grade, violations, price).
Response(status, error, has_report) ==
    [status |-> status, error |-> error, message |-> error # "none", has_report |-> has_report]
NoResponse == [status |-> 0, error |-> "none", message |-> FALSE, has_report |-> FALSE]

analyze_except_response_unhandled ==
    [status |-> 500, error |-> "internal_server_error", message |-> FALSE,
     has_report |-> FALSE]

\* analyze's except Exception branch: 500 analysis_failed with the message.
analyze_except_response == Response(500, "analysis_failed", FALSE)

\* The pipeline's position: the refresh sample and the timer_analysis of the
\* scrape, the detectors that returned, the one that raised, and the response,
\* kept in detected.
DetectStart ==
    [pc |-> "request", refreshed |-> FALSE, new_timer |-> None, timer_analysis |-> NoTimer,
     ran |-> << >>, raised_in |-> "none", response |-> NoResponse]

InitDetect ==
    /\ dpage \in DetectPages
    /\ detected = DetectStart
    /\ violations = << >>
    /\ trust_data = NoTrust
    /\ IdleTimer /\ IdlePrice

\* The request is turned away before any job is created: the rate limiter
\* (429), a body without url or a url without http(s) scheme (400).
RequestRejected ==
    /\ detected.pc = "request"
    /\ \E r \in {Response(429, "rate_limit_exceeded", FALSE),
                 Response(400, "url_required", FALSE),
                 Response(400, "invalid_url", FALSE)} :
         detected' = [detected EXCEPT !.pc = "rejected", !.response = r]
    /\ UNCHANGED <<violations, trust_data, dpage, timer, page, pc, px>>

\* The request passes the rate limiter and the url checks; the job is created
\* and the scrape starts.
RequestAccepted ==
    /\ detected.pc = "request"
    /\ detected' = [detected EXCEPT !.pc = "scrape"]
    /\ UNCHANGED <<violations, trust_data, dpage, timer, page, pc, px>>

\* _analyze_timer when no timer is found: the early return.
ScrapeNoTimer ==
    /\ detected.pc = "scrape"
    /\ ~timer_found(dpage)
    /\ detected' = [detected EXCEPT !.pc = "detect", !.timer_analysis = NoTimer]
    /\ UNCHANGED <<violations, trust_data, dpage, timer, page, pc, px>>

\* _analyze_timer when a timer is found but _get_timer_value yields no
\* (truthy) initial value: no refresh.
ScrapeNoInitialValue ==
    /\ detected.pc = "scrape"
    /\ timer_found(dpage)
    /\ ~Truthy(get_timer_value(dpage.clock))
    /\ detected' = [detected EXCEPT !.pc = "detect",
                                    !.timer_analysis = timer_analysis_of(dpage, FALSE)]
    /\ UNCHANGED <<violations, trust_data, dpage, timer, page, pc, px>>

\* _analyze_timer with an initial value: driver.refresh(), the wait, and the
\* second sample from the reloaded page.
ScrapeRefresh ==
    /\ detected.pc = "scrape"
    /\ timer_found(dpage)
    /\ Truthy(get_timer_value(dpage.clock))
    /\ \E reloaded \in {NoClock, Clock109, Clock119, Clock120, Clock125} :
         LET new_timer == get_timer_value(reloaded)
         IN detected' = [detected EXCEPT
                !.pc = "detect", !.refreshed = TRUE, !.new_timer = new_timer,
                !.timer_analysis =
                    timer_analysis_of(dpage,
                        scraper_resets_on_refresh(get_timer_value(dpage.clock), new_timer))]
    /\ UNCHANGED <<violations, trust_data, dpage, timer, page, pc, px>>

\* driver.refresh() raises: the bare except leaves resets_on_refresh False.
ScrapeRefreshRaises ==
    /\ detected.pc = "scrape"
    /\ timer_found(dpage)
    /\ Truthy(get_timer_value(dpage.clock))
    /\ detected' = [detected EXCEPT !.pc = "detect", !.refreshed = TRUE,
                                    !.timer_analysis = timer_analysis_of(dpage, FALSE)]
    /\ UNCHANGED <<violations, trust_data, dpage, timer, page, pc, px>>

\* scraper.scrape finds a blocker word in the page source: the error dict,
\* which analyze answers with 422.
ScrapeBlocked ==
    /\ detected.pc = "scrape"
    /\ detected' = [detected EXCEPT !.pc = "failed",
                                    !.response = Response(422, "site_protected", FALSE)]
    /\ UNCHANGED <<violations, trust_data, dpage, timer, page, pc, px>>

\* driver.get raises (network, timeout) inside scrape's try: the error dict,
\* which analyze answers with 422.
ScrapeRaises ==
    /\ detected.pc = "scrape"
    /\ detected' = [detected EXCEPT !.pc = "failed",
                                    !.response = Response(422, "scraping_failed", FALSE)]
    /\ UNCHANGED <<violations, trust_data, dpage, timer, page, pc, px>>

\* _init_driver raises: scrape calls it before its try, so the exception
\* reaches analyze's except branch.
DriverInitRaises ==
    /\ detected.pc = "scrape"
    /\ detected' = [detected EXCEPT !.pc = "failed",
                                    !.response = analyze_except_response]
    /\ UNCHANGED <<violations, trust_data, dpage, timer, page, pc, px>>

\* violations = detector.detect_all(html, soup, scraper_result)
DetectAll ==
    /\ detected.pc = "detect"
    /\ violations' = detect_all(dpage, detected.timer_analysis)
    /\ detected' = [detected EXCEPT !.pc = "score", !.ran = DetectorOrder]
    /\ UNCHANGED <<trust_data, dpage, timer, page, pc, px>>

\* One of detect_all's detector calls raises.  detect_all has no handler and
\* neither has its call in analyze: the detectors after it never run, the
\* violations local is never bound, and analyze's except branch answers 500.
DetectAllRaises ==
    /\ detected.pc = "detect"
    /\ \E k \in 1..Len(DetectorOrder) :
         detected' = [detected EXCEPT !.pc = "failed",
                                      !.ran = SubSeq(DetectorOrder, 1, k - 1),
                                      !.raised_in = DetectorOrder[k],
                                      !.response = analyze_except_response]
    /\ UNCHANGED <<violations, trust_data, dpage, timer, page, pc, px>>

\* trust_data = detector.calculate_trust_score(violations)
AnalyzeScore ==
    /\ detected.pc = "score"
    /\ trust_data' = calculate_trust_score(violations)
    /\ detected' = [detected EXCEPT !.pc = "store"]
    /\ UNCHANGED <<violations, dpage, timer, page, pc, px>>

\* The price is stored, the history read, the result built and saved, and
\* analyze answers 200 with the report.
StoreAndRespond ==
    /\ detected.pc = "store"
    /\ detected' = [detected EXCEPT !.pc = "done", !.response = Response(200, "none", TRUE)]
    /\ UNCHANGED <<violations, trust_data, dpage, timer, page, pc, px>>

\* A database call after the scoring raises: analyze's except branch.
StoreRaises ==
    /\ detected.pc = "store"
    /\ detected' = [detected EXCEPT !.pc = "failed",
                                    !.response = analyze_except_response]
    /\ UNCHANGED <<violations, trust_data, dpage, timer, page, pc, px>>

\* The server's answer to an exception that leaves analyze: a bare 500.
UnhandledResponse ==
    [status |-> 500, error |-> "internal_server_error", message |-> FALSE,
     has_report |-> FALSE]

\* get_or_create_url's INSERT raises and leaves its connection open with the
\* write lock: the update_job of analyze's except branch times out on that
\* lock and raises in turn, so the exception leaves analyze.
StoreRaisesLocked ==
    /\ detected.pc = "store"
    /\ detected' = [detected EXCEPT !.pc = "failed", !.raised_in = "update_job",
                                    !.response = UnhandledResponse]
    /\ UNCHANGED <<violations, trust_data, dpage, timer, page, pc, px>>

NextDetect ==
    \/ RequestRejected
    \/ RequestAccepted
    \/ ScrapeNoTimer
    \/ ScrapeNoInitialValue
    \/ ScrapeRefresh
    \/ ScrapeRefreshRaises
    \/ ScrapeBlocked
    \/ ScrapeRaises
    \/ DriverInitRaises
    \/ DetectAll
    \/ DetectAllRaises
    \/ AnalyzeScore
    \/ StoreAndRespond
    \/ StoreRaises
    \/ StoreRaisesLocked

SpecDetect == InitDetect /\ [][NextDetect]_vars

\* Both two-sample timer checks of the repository side by side: a behaviour
\* is a run of check_timer_reset or a run of the /analyze pipeline with
\* _analyze_timer's refresh.
InitTimerChecks == InitTimer \/ InitDetect

NextTimerChecks ==
    \/ timer # << >> /\ NextTimer
    \/ detected # << >> /\ NextDetect

SpecTimerChecks == InitTimerChecks /\ [][NextTimerChecks]_vars

\* ---- C3 ----
\* The page of the claim: its only manipulations are a pre-ticked
\* "Extended Warranty" checkbox (every other checkbox unticked, nothing
\* else in the text or markup) and a countdown that came back higher after
\* the refresh; the analysis has finished.
C3_Case ==
    /\ detected.pc = "done"
    /\ dpage.text = {}
    /\ ~dpage.small_print_fee
    /\ dpage.selected_addon_options = 0
    /\ \E i \in 1..Len(dpage.boxes) :
         dpage.boxes[i].checked # "absent" /\ dpage.boxes[i].label = PhraseWarranty
    /\ \A i \in 1..Len(dpage.boxes) :
         dpage.boxes[i].checked # "absent" => dpage.boxes[i].label = PhraseWarranty
    /\ dpage.clock = Clock120
    /\ detected.new_timer # None
    /\ detected.new_timer > get_timer_value(dpage.clock)

TypesOf(vs) == [i \in 1..Len(vs) |-> vs[i].type]
SeveritiesOf(vs) == [i \in 1..Len(vs) |-> vs[i].severity]

\* C3 (as amended): such a page yields exactly the findings fake_timer
\* (severity high, 2 x 1.5) and pre_ticked_addon (severity low, 2 x 0.5),
\* giving score 4 and grade C.
C3_EndToEndAmended ==
    C3_Case =>
        /\ TypesOf(violations) = <<"fake_timer", "pre_ticked_addon">>
        /\ SeveritiesOf(violations) = <<"high", "low">>
        /\ trust_data.score = 8
        /\ trust_data.grade = "C"

\* C3 (as stated): such a page yields exactly the findings pre_ticked_addon
\* (2 x 1.0) and fake_timer (2 x 1.5), giving score 5 and grade D.
C3_EndToEndOriginal ==
    C3_Case =>
        /\ Range(TypesOf(violations)) = {"fake_timer", "pre_ticked_addon"}
        /\ Len(violations) = 2
        /\ \A i \in 1..Len(violations) :
             violations[i].type = "pre_ticked_addon" => violations[i].severity = "medium"
        /\ trust_data.score = 10
        /\ trust_data.grade = "D"

\* The claim's page has been analysed: one bare-checked "Extended Warranty"
\* box, the countdown 0:02:00 read as 0:02:05 after the refresh.
C3_Witness ==
    /\ C3_Case
    /\ dpage.boxes = <<[checked |-> "bare", label |-> PhraseWarranty]>>
    /\ dpage.hints = {}
    /\ detected.new_timer = 125
    /\ trust_data.grade = "C"

(***************************************************************************)
(* Price / MRP extractor: scraper/price_extractor.py                       *)
(*                                                                         *)
(* A page is its domain, the offer of its JSON-LD Product block and the    *)
(* list of its price-bearing elements in document order.  An element is    *)
(* its opening tag, the words before its figure ("MRP:", "EMI from",       *)
(* "Get .. cashback", "Save", "Save ..%") and the figure.  Every tier      *)
(* reads the same elements, as the code's tiers read the same soup.        *)
(***************************************************************************)

MinPrice == 100
MaxPrice == 10000000

\* 100 <= value <= 10000000
InBounds(v) == MinPrice <= v /\ v <= MaxPrice

\* The opening tags, as the characters of str(soup).lower().
Markup(tag) ==
    CASE tag = "span#priceblock_ourprice" -> <<"<", "s", "p", "a", "n", " ", "i", "d", "=", "\"",
            "p", "r", "i", "c", "e", "b", "l", "o", "c", "k", "_", "o", "u", "r", "p", "r", "i",
            "c", "e", "\"", ">">>
      [] tag = "span.a-text-price" -> <<"<", "s", "p", "a", "n", " ", "c", "l", "a", "s", "s", "=",
            "\"", "a", "-", "p", "r", "i", "c", "e", " ", "a", "-", "t", "e", "x", "t", "-", "p",
            "r", "i", "c", "e", "\"", ">">>
      [] tag = "div._30jeq3" -> <<"<", "d", "i", "v", " ", "c", "l", "a", "s", "s", "=", "\"", "_",
            "3", "0", "j", "e", "q", "3", "\"", ">">>
      [] tag = "div._3I9_wc" -> <<"<", "d", "i", "v", " ", "c", "l", "a", "s", "s", "=", "\"", "_",
            "3", "i", "9", "_", "w", "c", "\"", ">">>
      [] tag = "del" -> <<"<", "d", "e", "l", ">">>
      [] tag = "span" -> <<"<", "s", "p", "a", "n", ">">>
      [] OTHER -> <<"<", "d", "i", "v", ">">>

\* The longest element list drawn for a page.
MaxElems == 2

El(tag, label, figures) == [tag : {tag}, label : {label}, figure : figures]

Elements ==
    El("span#priceblock_ourprice", "", {50, 500, 1599})
    \cup El("div._30jeq3", "", {1599})
    \cup El("span.a-text-price", "", {0, 3490})
    \cup El("div._3I9_wc", "", {3490})
    \cup El("del", "", {50, 2999, 3490})
    \cup El("div", "", {1599, 20000000})
    \cup El("div", "mrp", {50, 2999})
    \cup El("div", "emi", {136})
    \cup El("span", "emi", {136})
    \cup El("div", "cashback", {500})
    \cup El("span", "cashback", {500})
    \cup El("div", "save", {1000})
    \cup El("div", "save_pct", {50})

NoOffer == [price |-> None, maxPrice |-> None]

JsonLdOffers ==
    {NoOffer,
     [price |-> 1599, maxPrice |-> 3490],
     [price |-> 1599, maxPrice |-> None],
     [price |-> 50, maxPrice |-> 3490]}

PricePages ==
    [domain : {"amazon", "flipkart", "other"},
     json_ld : JsonLdOffers,
     elems : SeqsUpTo(Elements, MaxElems)]

Figures(es) == [i \in 1..Len(es) |-> es[i].figure]
WithTag(pg, tag) == SelectSeq(pg.elems, LAMBDA e : e.tag = tag)
WithLabel(pg, label) == SelectSeq(pg.elems, LAMBDA e : e.label = label)
FirstOf(es) == IF es = << >> THEN << >> ELSE <<Head(es)>>

\* _extract_from_json_ld
extract_from_json_ld(pg) == pg.json_ld

\* The site-specific selling-price selectors: on amazon every matching
\* element, on flipkart the first one.
site_price_candidates(pg) ==
    IF pg.domain = "amazon" THEN Figures(WithTag(pg, "span#priceblock_ourprice"))
    ELSE IF pg.domain = "flipkart" THEN Figures(FirstOf(WithTag(pg, "div._30jeq3")))
    ELSE << >>

\* if json_ld_price: candidates.append(json_ld_price)
json_ld_price_candidates(pg) ==
    IF Truthy(extract_from_json_ld(pg).price) THEN <<extract_from_json_ld(pg).price>> ELSE << >>

\* any(tag in context for tag in ['<del', '<s', 'strike', 'text-decoration'])
\* on the 50 characters around the figure, which hold the element's opening tag.
strikethrough_context(e) ==
    \E needle \in {<<"<", "d", "e", "l">>, <<"<", "s">>, <<"s", "t", "r", "i", "k", "e">>, <<"t",
            "e", "x", "t", "-", "d", "e", "c", "o", "r", "a", "t", "i", "o", "n">>} :
        IsInfix(needle, Markup(e.tag))

\* An element whose text holds a currency figure (a rupee sign and digits).
HasCurrencyFigure(e) == e.label # "save_pct"

\* The regex fallback: every in-bounds currency figure of the html outside a
\* strikethrough context.
regex_price_candidates(pg) ==
    Figures(SelectSeq(pg.elems,
        LAMBDA e : HasCurrencyFigure(e) /\ InBounds(e.figure) /\ ~strikethrough_context(e)))

detect_selling_price_regex_always(pg) ==
    LET site == site_price_candidates(pg)
        candidates == site \o json_ld_price_candidates(pg) \o regex_price_candidates(pg)
        site_tier == IF pg.domain \in {"amazon", "flipkart"} THEN <<"site">> ELSE << >>
    IN [value |-> IF candidates # << >> THEN Min(candidates) ELSE None,
        tiers |-> site_tier \o <<"json_ld", "regex">>]

detect_selling_price_first_tier_wins(pg) ==
    LET structured == json_ld_price_candidates(pg)
        site == site_price_candidates(pg)
        regex == regex_price_candidates(pg)
    IN IF structured # << >> THEN [value |-> Head(structured), tiers |-> <<"json_ld">>]
       ELSE IF site # << >> THEN [value |-> Min(site), tiers |-> <<"json_ld", "site">>]
       ELSE [value |-> IF regex # << >> THEN Min(regex) ELSE None,
             tiers |-> <<"json_ld", "site", "regex">>]

\* _detect_selling_price: the value returned and the tiers consulted, in order.
detect_selling_price(pg) ==
    LET site == site_price_candidates(pg)
        candidates == site \o json_ld_price_candidates(pg)
        site_tier == IF pg.domain \in {"amazon", "flipkart"} THEN <<"site">> ELSE << >>
    IN IF candidates # << >>
       THEN [value |-> Min(candidates), tiers |-> site_tier \o <<"json_ld">>]
       ELSE [value |-> IF regex_price_candidates(pg) # << >>
                       THEN Min(regex_price_candidates(pg)) ELSE None,
             tiers |-> site_tier \o <<"json_ld", "regex">>]

\* The text patterns of _detect_mrp_onsite, in order: re.search takes the
\* first match of a pattern, and an out-of-bounds figure moves on to the next
\* pattern.  The modelled pages use the first pattern (MRP: ...).
mrp_text_tier(pg) ==
    LET first == FirstOf(WithLabel(pg, "mrp"))
    IN IF first # << >> /\ InBounds(first[1].figure) THEN first[1].figure ELSE None

\* The site-specific MRP selectors: the first matching element's figure,
\* returned without a bounds check.
mrp_site_tier(pg) ==
    LET matched == IF pg.domain = "amazon" THEN WithTag(pg, "span.a-text-price")
                   ELSE IF pg.domain = "flipkart" THEN WithTag(pg, "div._3I9_wc")
                   ELSE << >>
    IN IF matched # << >> THEN Head(matched).figure ELSE None

\* if json_ld_mrp: return json_ld_mrp
mrp_json_ld_tier(pg) ==
    IF Truthy(extract_from_json_ld(pg).maxPrice) THEN extract_from_json_ld(pg).maxPrice ELSE None

detect_mrp_onsite_structured_first(pg) ==
    IF mrp_json_ld_tier(pg) # None THEN [value |-> mrp_json_ld_tier(pg), tier |-> "json_ld"]
    ELSE IF mrp_text_tier(pg) # None THEN [value |-> mrp_text_tier(pg), tier |-> "text"]
    ELSE IF mrp_site_tier(pg) # None THEN [value |-> mrp_site_tier(pg), tier |-> "site"]
    ELSE [value |-> None, tier |-> "none"]

\* _detect_mrp_onsite: text patterns, then site selectors, then JSON-LD.
detect_mrp_onsite(pg) ==
    IF mrp_text_tier(pg) # None THEN [value |-> mrp_text_tier(pg), tier |-> "text"]
    ELSE IF mrp_site_tier(pg) # None THEN [value |-> mrp_site_tier(pg), tier |-> "site"]
    ELSE IF mrp_json_ld_tier(pg) # None THEN [value |-> mrp_json_ld_tier(pg), tier |-> "json_ld"]
    ELSE [value |-> None, tier |-> "none"]

\* A variant that keeps every strikethrough figure, whatever its size.
detect_mrp_strikethrough_unbounded(pg) ==
    LET mrp_candidates ==
            Figures(SelectSeq(pg.elems,
                LAMBDA e : e.tag = "del" /\ HasCurrencyFigure(e)))
    IN IF mrp_candidates # << >> THEN Max(mrp_candidates) ELSE None

\* _detect_mrp_strikethrough: the highest in-bounds strikethrough figure.
detect_mrp_strikethrough(pg) ==
    LET mrp_candidates ==
            Figures(SelectSeq(pg.elems,
                LAMBDA e : e.tag = "del" /\ HasCurrencyFigure(e) /\ InBounds(e.figure)))
    IN IF mrp_candidates # << >> THEN Max(mrp_candidates) ELSE None

\* round(n / d) for n >= 0, d > 0: to the nearest integer, ties to even.
RoundDiv(n, d) ==
    LET q == n \div d
        r == n % d
    IN IF 2 * r < d THEN q
       ELSE IF 2 * r > d THEN q + 1
       ELSE IF q % 2 = 0 THEN q ELSE q + 1

\* _infer_mrp_from_discount: "Save N%" first, then "Save Rs Y".
infer_mrp_from_discount(pg, selling_price) ==
    LET pcts == WithLabel(pg, "save_pct")
        amounts == WithLabel(pg, "save")
        by_pct == IF pcts # << >> /\ 0 < Head(pcts).figure /\ Head(pcts).figure < 100
                  THEN RoundDiv(selling_price * 100, 100 - Head(pcts).figure)
                  ELSE None
        by_amount == IF amounts # << >> /\ Head(amounts).figure > 0
                     THEN selling_price + Head(amounts).figure
                     ELSE None
    IN IF by_pct # None /\ by_pct > selling_price THEN by_pct
       ELSE IF by_amount # None /\ by_amount > selling_price THEN by_amount
       ELSE None

\* _get_cross_site_mrp: the placeholder returns None.
get_cross_site_mrp == None

\* The locals of extract_price_and_mrp_detailed, and its return value once
\* pc = "done".  consulted lists the tiers run, in order; mrp_tier names the
\* tier whose figure mrp_onsite holds and, on return, the tier that supplied
\* the MRP returned.
PxStart ==
    [selling_price |-> None, mrp_onsite |-> None, mrp_source |-> "onsite",
     confidence |-> "high", mrp_tier |-> "none", consulted |-> << >>,
     ret_selling_price |-> None, ret_mrp |-> None, ret_mrp_source |-> "-",
     ret_confidence |-> "-"]

InitPrice ==
    /\ page \in PricePages
    /\ pc = "selling_price"
    /\ px = PxStart
    /\ IdleTrust /\ IdleDetect /\ IdleTimer

\* STEP 1: selling_price = _detect_selling_price(soup, domain)
StepSellingPrice ==
    /\ pc = "selling_price"
    /\ px' = [px EXCEPT !.selling_price = detect_selling_price(page).value,
                        !.consulted = detect_selling_price(page).tiers]
    /\ pc' = "mrp_onsite"
    /\ UNCHANGED <<violations, trust_data, dpage, detected, timer, page>>

\* STEP 2: mrp_onsite = _detect_mrp_onsite(soup, domain)
StepMrpOnsite ==
    /\ pc = "mrp_onsite"
    /\ px' = [px EXCEPT !.mrp_onsite = detect_mrp_onsite(page).value,
                        !.mrp_tier = detect_mrp_onsite(page).tier,
                        !.consulted = Append(@, "mrp_onsite")]
    /\ pc' = "strikethrough"
    /\ UNCHANGED <<violations, trust_data, dpage, detected, timer, page>>

\* A variant in which a strikethrough figure keeps the confidence of STEP 2.
strikethrough_confidence_high == "high"

\* The confidence STEP 3 assigns to a strikethrough figure.
strikethrough_confidence == "medium"

\* The tags STEP 5 assigns when only the cross-site lookup has a figure.
cross_site_tags == [mrp_source |-> "cross_site", confidence |-> "medium"]

\* STEP 3: if not mrp_onsite: mrp_onsite = _detect_mrp_strikethrough(soup)
StepStrikethrough ==
    /\ pc = "strikethrough"
    /\ px' = IF ~Truthy(px.mrp_onsite)
             THEN LET found == detect_mrp_strikethrough(page)
                  IN [px EXCEPT !.mrp_onsite = found,
                                !.confidence = IF Truthy(found) THEN strikethrough_confidence ELSE @,
                                !.mrp_tier = IF Truthy(found) THEN "strikethrough" ELSE @,
                                !.consulted = Append(@, "strikethrough")]
             ELSE px
    /\ pc' = "infer"
    /\ UNCHANGED <<violations, trust_data, dpage, detected, timer, page>>

\* STEP 4: if not mrp_onsite and selling_price: _infer_mrp_from_discount
StepInfer ==
    /\ pc = "infer"
    /\ px' = IF ~Truthy(px.mrp_onsite) /\ Truthy(px.selling_price)
             THEN LET mrp_inferred == infer_mrp_from_discount(page, px.selling_price)
                  IN IF Truthy(mrp_inferred)
                     THEN [px EXCEPT !.mrp_onsite = mrp_inferred, !.mrp_source = "inferred",
                                     !.confidence = "low", !.mrp_tier = "inferred",
                                     !.consulted = Append(@, "infer")]
                     ELSE [px EXCEPT !.consulted = Append(@, "infer")]
             ELSE px
    /\ pc' = "final"
    /\ UNCHANGED <<violations, trust_data, dpage, detected, timer, page>>

\* STEP 5 (the cross-site benchmark, which replaces a missing on-site MRP),
\* final_mrp and the return value.
StepFinal ==
    /\ pc = "final"
    /\ LET benchmark_mrp == IF Truthy(px.selling_price) THEN get_cross_site_mrp ELSE None
           from_benchmark == Truthy(benchmark_mrp) /\ ~Truthy(px.mrp_onsite)
           mrp_onsite == IF from_benchmark THEN benchmark_mrp ELSE px.mrp_onsite
           mrp_source == IF from_benchmark THEN cross_site_tags.mrp_source ELSE px.mrp_source
           confidence == IF from_benchmark THEN cross_site_tags.confidence ELSE px.confidence
           mrp_tier == IF from_benchmark THEN "cross_site" ELSE px.mrp_tier
           final_mrp == IF Truthy(mrp_onsite) THEN mrp_onsite ELSE benchmark_mrp
       IN px' = [px EXCEPT
                    !.mrp_onsite = mrp_onsite,
                    !.mrp_source = mrp_source,
                    !.confidence = confidence,
                    !.ret_selling_price = IF Truthy(px.selling_price) THEN px.selling_price ELSE None,
                    !.ret_mrp = IF Truthy(final_mrp) THEN final_mrp ELSE None,
                    !.mrp_tier = IF Truthy(final_mrp) THEN mrp_tier ELSE "none",
                    !.ret_mrp_source = IF Truthy(final_mrp) THEN mrp_source ELSE "None",
                    !.ret_confidence = IF Truthy(final_mrp) THEN confidence ELSE "None"]
    /\ pc' = "done"
    /\ UNCHANGED <<violations, trust_data, dpage, detected, timer, page>>

NextPrice ==
    \/ StepSellingPrice
    \/ StepMrpOnsite
    \/ StepStrikethrough
    \/ StepInfer
    \/ StepFinal

SpecPrice == InitPrice /\ [][NextPrice]_vars

Returned == pc = "done"

\* ---- C5 ----
\* The page embeds structured product data with a price and a maxPrice.
C5_Case ==
    /\ Returned
    /\ Truthy(page.json_ld.price)
    /\ Truthy(page.json_ld.maxPrice)

\* The tag of the site-specific selling-price and MRP selectors of the domain.
PriceSelectorTag ==
    IF page.domain = "amazon" THEN "span#priceblock_ourprice"
    ELSE IF page.domain = "flipkart" THEN "div._30jeq3" ELSE "-"
MrpSelectorTag ==
    IF page.domain = "amazon" THEN "span.a-text-price"
    ELSE IF page.domain = "flipkart" THEN "div._3I9_wc" ELSE "-"

\* C5 (as amended): with structured data {price p, maxPrice m} the extractor
\* returns selling price p unless a site-specific price selector of the
\* domain yields a lower figure, and MRP m unless the page has an in-bounds
\* "MRP: ..." text pattern or a site-specific MRP selector match; the other
\* currency figures (regex matches, strikethrough prices, discount
\* statements) change neither.
C5_StructuredDataAmended ==
    C5_Case =>
        /\ (\A i \in 1..Len(page.elems) :
               page.elems[i].tag = PriceSelectorTag => page.elems[i].figure >= page.json_ld.price)
           => px.ret_selling_price = page.json_ld.price
        /\ (\A i \in 1..Len(page.elems) :
               /\ ~(page.elems[i].label = "mrp" /\ InBounds(page.elems[i].figure))
               /\ page.elems[i].tag # MrpSelectorTag)
           => px.ret_mrp = page.json_ld.maxPrice

\* C5 (as stated): with structured data {price p, maxPrice m} the extractor
\* returns selling price p and MRP m whatever other (positive) currency
\* figures and "MRP: ..." text the page holds.
C5_StructuredDataOriginal ==
    (C5_Case /\ \A i \in 1..Len(page.elems) : page.elems[i].figure > 0) =>
        /\ px.ret_selling_price = page.json_ld.price
        /\ px.ret_mrp = page.json_ld.maxPrice

\* {1599, 3490} was returned from a page that also shows a lower EMI figure
\* outside any strikethrough context and a struck-through 2999.
C5_Witness ==
    /\ C5_Case
    /\ page.json_ld = [price |-> 1599, maxPrice |-> 3490]
    /\ page.elems = <<[tag |-> "div", label |-> "emi", figure |-> 136],
                      [tag |-> "del", label |-> "", figure |-> 2999]>>
    /\ px.ret_selling_price = 1599
    /\ px.ret_mrp = 3490

\* ---- C6 ----
SellingPriceResolved == pc # "selling_price"

\* The figures the site-specific selectors and the structured data yield.
C6_Pool == Range(site_price_candidates(page)) \cup Range(json_ld_price_candidates(page))

\* C6 (as amended): the site-specific selector figures and the
\* structured-data price are pooled and the lowest of them is the selling
\* price; the regex tier is consulted only when both yield nothing, and it
\* is consulted then.
C6_SellingTiersAmended ==
    SellingPriceResolved =>
        /\ C6_Pool # {} =>
             /\ px.selling_price \in C6_Pool
             /\ \A v \in C6_Pool : px.selling_price <= v
             /\ "regex" \notin Range(px.consulted)
        /\ C6_Pool = {} <=> "regex" \in Range(px.consulted)

\* C6 (as stated): the first tier that yields a value wins, in the order
\* structured data, site-specific selectors, regex: a structured-data price
\* is the result whatever a selector yields, and the regex tier is consulted
\* only when both earlier tiers yield nothing.
C6_SellingTiersOriginal ==
    SellingPriceResolved =>
        /\ json_ld_price_candidates(page) # << >> =>
             px.selling_price = Head(json_ld_price_candidates(page))
        /\ "regex" \in Range(px.consulted) => C6_Pool = {}

\* On an amazon page the selector yields 500 and the structured data 1599:
\* 500 was returned and the regex tier was not consulted.
C6_Witness ==
    /\ SellingPriceResolved
    /\ page.domain = "amazon"
    /\ site_price_candidates(page) = <<500>>
    /\ json_ld_price_candidates(page) = <<1599>>
    /\ px.selling_price = 500
    /\ "regex" \notin Range(px.consulted)

\* ---- C7 ----
\* What tiers (1)-(3) of the amended order leave: the text pattern, else the
\* site-specific selector's figure, else the structured-data maxPrice.
C7_Onsite ==
    IF mrp_text_tier(page) # None THEN mrp_text_tier(page)
    ELSE IF mrp_site_tier(page) # None THEN mrp_site_tier(page)
    ELSE mrp_json_ld_tier(page)

C7_Inferred ==
    IF Truthy(px.selling_price) THEN infer_mrp_from_discount(page, px.selling_price) ELSE None

FirstTruthy(vs) ==
    IF \E i \in 1..Len(vs) : Truthy(vs[i])
    THEN vs[CHOOSE i \in 1..Len(vs) : Truthy(vs[i]) /\ \A j \in 1..(i - 1) : ~Truthy(vs[j])]
    ELSE None

\* C7 (as amended): the MRP is resolved by the first successful tier in the
\* order (1) explicit MRP text pattern with an in-bounds figure, (2)
\* site-specific MRP selector, (3) structured-data maxPrice, (4)
\* strikethrough elements, (5) inference from a discount statement and the
\* selling price, (6) none.  A later tier is consulted, and determines the
\* MRP, only when every earlier tier consulted found nothing, a figure of 0
\* counting as nothing; a selector match, even of 0, ends tiers (1)-(3).
C7_MrpTiersAmended ==
    Returned =>
        /\ px.ret_mrp = FirstTruthy(<<C7_Onsite, detect_mrp_strikethrough(page), C7_Inferred>>)
        /\ "strikethrough" \in Range(px.consulted) <=> ~Truthy(C7_Onsite)
        /\ "infer" \in Range(px.consulted) <=>
             (~Truthy(C7_Onsite) /\ ~Truthy(detect_mrp_strikethrough(page))
              /\ Truthy(px.selling_price))
        /\ px.mrp_tier = "text" <=> mrp_text_tier(page) # None
        /\ px.mrp_tier = "site" <=>
             (mrp_text_tier(page) = None /\ Truthy(mrp_site_tier(page)))
        /\ px.mrp_tier = "json_ld" <=>
             (mrp_text_tier(page) = None /\ mrp_site_tier(page) = None
              /\ mrp_json_ld_tier(page) # None)

\* C7 (as stated): the MRP is resolved by the first successful tier in the
\* order (1) structured-data maxPrice, (2) explicit MRP text pattern, (3)
\* strikethrough elements, (4) discount inference, (5) none.
C7_MrpTiersOriginal ==
    (Returned /\ page.domain = "other") =>
        px.ret_mrp = FirstTruthy(<<mrp_json_ld_tier(page), mrp_text_tier(page),
                                   detect_mrp_strikethrough(page), C7_Inferred>>)

\* A page with structured-data maxPrice 3490 and the text "MRP: 2999" has
\* been resolved: the text pattern determined the MRP.
C7_Witness ==
    /\ Returned
    /\ page.json_ld.maxPrice = 3490
    /\ mrp_text_tier(page) = 2999
    /\ px.mrp_tier = "text"
    /\ px.ret_mrp = 2999

\* ---- C8 ----
\* C8: whenever both a selling price and an MRP are returned, the price is
\* at least 30% of the MRP.
C8_PriceAtLeast30PercentOfMrp ==
    (Returned /\ px.ret_selling_price # None /\ px.ret_mrp # None) =>
        10 * px.ret_selling_price >= 3 * px.ret_mrp

\* ---- C9 ----
\* C9: the selling price returned is None or lies in [100, 10,000,000],
\* whichever tier produced it.
C9_SellingPriceInBounds ==
    Returned =>
        \/ px.ret_selling_price = None
        \/ (100 <= px.ret_selling_price /\ px.ret_selling_price <= 10000000)

\* ---- C10 ----
\* The page's only currency figures are EMI and cashback figures, and it
\* embeds no structured data.
C10_OnlyOfferFigures ==
    /\ page.json_ld = NoOffer
    /\ page.elems # << >>
    /\ \A i \in 1..Len(page.elems) : page.elems[i].label \in {"emi", "cashback"}

\* C10: the regex tier never returns a figure whose context is an EMI,
\* cashback or strikethrough context, and a page whose only currency figures
\* are EMI and cashback figures resolves to None, whatever tags surround them.
C10_RegexRejectsOfferFigures ==
    Returned =>
        /\ C10_OnlyOfferFigures => px.ret_selling_price = None
        /\ ("regex" \in Range(px.consulted) /\ px.ret_selling_price # None) =>
             \E i \in 1..Len(page.elems) :
                /\ page.elems[i].figure = px.ret_selling_price
                /\ page.elems[i].label \notin {"emi", "cashback"}
                /\ page.elems[i].tag # "del"

(***************************************************************************)
(* The detectors package: detectors/run_all.py and the detectors it calls  *)
(* (scarcity_detector, timer_detector, drip_pricing_detector,              *)
(* addon_detector, mrp_inflation_detector).  These read the raw html; its  *)
(* text is again a set of phrases, its markup a set of hints.              *)
(***************************************************************************)

PhraseSellingFast == <<"selling", "fast", "only", "3", "days", "to", "go">>
PhraseHurryFew == <<"hurry", "few", "offers", "on", "credit", "cards">>
PhraseFewLeft == <<"few", "left">>
PhraseLimited == <<"limited", "edition", "design">>
PhraseTerms == <<"offer", "valid", "until", "sunday">>

RunAllTextChoices ==
    {{}, {PhraseStock}, {PhrasePrice}, {PhraseSellingFast}, {PhraseHurryFew},
     {PhraseFewLeft}, {PhraseStock, PhraseFewLeft}, {PhraseLimited}, {PhraseFee},
     {PhraseWarranty}, {PhraseTerms}}

\* Markup hints in the html: class="countdown", a setInterval(...countdown...)
\* script, a data-expiry="..." attribute.
RunAllHintChoices ==
    {{}, {"countdown"}, {"setInterval"}, {"setInterval", "data-expiry"}, {"data-expiry"}}

\* The arguments of run_all_detectors: the html, whether a url was passed,
\* and the price and MRP.
RunAllPages ==
    [text : RunAllTextChoices,
     clock : {NoClock, Clock120},
     hints : RunAllHintChoices,
     checked_input : BOOLEAN,
     url : BOOLEAN,
     price : {None, 0, 1000},
     mrp : {None, 1200, 1300, 1500}]

StockWords == {<<"left">>, <<"remaining">>, <<"in", "stock">>}

\* re.search(a[^.]{0,80}?(alt1|alt2|...), phrase) for the phrases drawn here
\* (no full stop, shorter than 80 characters): the leftmost a, then the
\* lazily shortest gap after which one of the alternatives matches.  The
\* value is the matched text, << >> when there is no match.
LazyMatch(a, alts, phrase) ==
    LET At(pat, g) ==
            /\ g >= 1
            /\ g + Len(pat) - 1 <= Len(phrase)
            /\ \A k \in 1..Len(pat) : TokMatch(pat[k], phrase[g + k - 1])
        Hits(i) == {h \in (1..Len(phrase)) \X alts : h[1] >= i + Len(a) /\ At(h[2], h[1])}
        Starts == {i \in 1..Len(phrase) : At(a, i) /\ Hits(i) # {}}
    IN IF Starts = {} THEN << >>
       ELSE LET i == CHOOSE x \in Starts : \A y \in Starts : x <= y
                h == CHOOSE x \in Hits(i) : \A y \in Hits(i) : x[1] <= y[1]
            IN SubSeq(phrase, i, h[1] + Len(h[2]) - 1)

\* The texts such a pattern matches in the page, one per phrase.
MatchesFrom(a, alts, text) ==
    {LazyMatch(a, alts, phrase) : phrase \in text} \ {<< >>}

\* "left" in match_text or "remaining" in match_text or "stock" in match_text
HasStockWord(m) == \E w \in {<<"left">>, <<"remaining">>, <<"stock">>} : IsInfix(w, m)

\* re.search(r'\d+', match_text)
HasNumber(m) == IsInfix(<<"<num>">>, m)

\* The alternatives that may follow "selling fast" and "hurry":
\* only\s+\d+ | few | low\s+stock | \d+\s+(left|remaining|in\s+stock)
StockContext ==
    {<<"only", "<num>">>, <<"few">>, <<"low", "stock">>}
    \cup {<<"<num>">> \o w : w \in StockWords}

\* detect_scarcity: which of the eight patterns contribute a match, and the
\* confidence the assignments leave, in pattern order.
detect_scarcity(pg) ==
    LET text == pg.text
        m1 == \E w \in StockWords : InText(<<"only", "<num>">> \o w, text)
        m2 == \E w \in StockWords : InText(<<"<num>">> \o w, text)
        m3 == \E w \in StockWords : InText(<<"few">> \o w, text)
        m4 == InText(<<"low", "stock">>, text)
        m5 == \E m \in MatchesFrom(<<"selling", "fast">>, StockContext, text) :
                  HasStockWord(m) \/ HasNumber(m)
        m6 == \E m \in MatchesFrom(<<"hurry">>, StockContext, text) : HasStockWord(m)
        m7 == MatchesFrom(<<"limited", "stock">>,
                          {<<"<num>">>, <<"few">>, <<"left">>, <<"remaining">>}, text) # {}
        m8 == \E u \in {<<"items">>, <<"item">>, <<"units">>, <<"unit">>} :
              \E w \in {<<"left">>, <<"remaining">>} : InText(<<"<num>">> \o u \o w, text)
        c1 == IF m1 THEN "high" ELSE "none"
        c2 == IF m2 THEN "high" ELSE c1
        c3 == IF m3 THEN "medium" ELSE c2
        c4 == IF m4 /\ c3 # "high" THEN "medium" ELSE c3
        c5 == IF m5 /\ c4 # "high" THEN "medium" ELSE c4
        c6 == IF m6 /\ c5 # "high" THEN "medium" ELSE c5
        c7 == IF m7 /\ c6 # "high" THEN "medium" ELSE c6
        c8 == IF m8 THEN "high" ELSE c7
        matched == m1 \/ m2 \/ m3 \/ m4 \/ m5 \/ m6 \/ m7 \/ m8
    IN [ran |-> TRUE, detected |-> matched,
        confidence |-> IF matched THEN (IF c8 = "none" THEN "medium" ELSE c8) ELSE "none"]

\* detect_fake_timer's four detection rules.
has_countdown_digits(pg) == pg.clock.fmt \in {"hms", "hm"}
has_timer_classes(pg) == "countdown" \in pg.hints
has_data_countdown(pg) == "data-expiry" \in pg.hints
has_js_timer(pg) == "setInterval" \in pg.hints

\* A variant without the early return: every page goes on to the checks.
timer_detected_always(pg) == TRUE

\* ONLY detect timer if at least one actual timer element exists
timer_detected(pg) ==
    has_countdown_digits(pg) \/ has_timer_classes(pg) \/ has_data_countdown(pg)
    \/ has_js_timer(pg)

\* re.search(r"valid|until|expiry|terms|conditions|t&c|expires", text) on the
\* lower-cased html: the attribute name data-expiry matches as well.
terms_found(pg) ==
    \/ \E w \in {<<"valid">>, <<"until">>, <<"expiry">>, <<"terms">>, <<"conditions">>,
                 <<"expires">>} : InText(w, pg.text)
    \/ "data-expiry" \in pg.hints

BoolCount(b) == IF b THEN 1 ELSE 0

\* detect_fake_timer once a timer was detected: the flags and the confidence,
\* given what check_timer_reset returned (False when it was not called).
fake_timer_verdict(pg, reset_on_refresh) ==
    LET frontend_only == has_js_timer(pg) /\ ~has_data_countdown(pg)
        missing_tnc == ~terms_found(pg)
        suspicious_count ==
            BoolCount(reset_on_refresh) + BoolCount(frontend_only) + BoolCount(missing_tnc)
    IN [ran |-> TRUE, detected |-> TRUE,
        flags |-> [reset_on_refresh |-> reset_on_refresh, frontend_only |-> frontend_only,
                   missing_tnc |-> missing_tnc],
        confidence |-> IF suspicious_count = 0 THEN "low"
                       ELSE IF suspicious_count = 1 THEN "medium" ELSE "high"]

\* detect_fake_timer's early return.
NoFakeTimer ==
    [ran |-> TRUE, detected |-> FALSE,
     flags |-> [reset_on_refresh |-> FALSE, frontend_only |-> FALSE, missing_tnc |-> FALSE],
     confidence |-> "none"]

\* detectors.drip_pricing_detector.detect_drip_pricing: the fee flags found in
\* the lower-cased html.
drip_pricing_flags(pg) ==
    LET AnyKw(kws) == \E kw \in kws : InText(kw, pg.text)
    IN BoolCount(AnyKw({<<"delivery", "fee">>, <<"delivery", "charge">>, <<"shipping", "fee">>}))
       + BoolCount(AnyKw({<<"convenience", "fee">>, <<"platform", "fee">>}))
       + BoolCount(AnyKw({<<"packaging", "fee">>, <<"handling", "fee">>}))
       + BoolCount(AnyKw({<<"additional", "charges">>, <<"extra", "charges">>}))

detect_drip_pricing_html(pg) ==
    LET suspicious_count == drip_pricing_flags(pg)
    IN [ran |-> TRUE, detected |-> suspicious_count > 0,
        confidence |-> IF suspicious_count = 0 THEN "none"
                       ELSE IF suspicious_count <= 2 THEN "medium" ELSE "high"]

\* ADDON_KEYWORDS, as far as the phrases drawn here can match them.
ADDON_KEYWORDS ==
    {<<"warranty">>, <<"extended", "warranty">>, <<"damage", "protection">>,
     <<"screen", "protection">>, <<"insurance">>, <<"protection", "plan">>, <<"add-on">>,
     <<"buy", "together">>, <<"recommended", "accessories">>}

\* detect_addons: a keyword in the html, or an <input ... checked ...> tag.
detect_addons(pg) ==
    [ran |-> TRUE,
     detected |-> (\E kw \in ADDON_KEYWORDS : InText(kw, pg.text)) \/ pg.checked_input]

\* detect_mrp_inflation: ratio = mrp / price, "high" from 1.5, "medium" from 1.3.
detect_mrp_inflation(price, mrp) ==
    IF ~Truthy(mrp) \/ ~Truthy(price)
    THEN [ran |-> TRUE, detected |-> FALSE, inflation_level |-> "none"]
    ELSE IF 10 * mrp >= 15 * price
         THEN [ran |-> TRUE, detected |-> TRUE, inflation_level |-> "high"]
         ELSE IF 10 * mrp >= 13 * price
              THEN [ran |-> TRUE, detected |-> TRUE, inflation_level |-> "medium"]
              ELSE [ran |-> TRUE, detected |-> FALSE, inflation_level |-> "none"]

\* A results entry run_all_detectors has not assigned yet.
NotRun == [ran |-> FALSE, detected |-> FALSE]

\* run_all_detectors' position, its results dict, how the two-sample fetch of
\* the timer detector went, and the detector whose exception ended the run.
RunAllStart ==
    [pc |-> "ra_scarcity",
     results |-> [scarcity |-> NotRun, timer |-> NotRun, drip_pricing |-> NotRun,
                  addons |-> NotRun, mrp_inflation |-> NotRun],
     fetch |-> "none", raised_in |-> "none"]

InitRunAll ==
    /\ dpage \in RunAllPages
    /\ detected = RunAllStart
    /\ IdleTrust /\ IdleTimer /\ IdlePrice

\* results["scarcity"] = detect_scarcity(html)
RunScarcity ==
    /\ detected.pc = "ra_scarcity"
    /\ detected' = [detected EXCEPT !.pc = "ra_timer",
                                    !.results.scarcity = detect_scarcity(dpage)]
    /\ UNCHANGED <<violations, trust_data, dpage, timer, page, pc, px>>

\* results["timer"] = detect_fake_timer(html, url=url) when no timer element
\* is found (the early return) or no url was passed (no two-sample check).
RunTimerNotChecked ==
    /\ detected.pc = "ra_timer"
    /\ ~timer_detected(dpage) \/ ~dpage.url
    /\ detected' = [detected EXCEPT
            !.pc = "ra_drip",
            !.results.timer = IF timer_detected(dpage)
                              THEN fake_timer_verdict(dpage, FALSE) ELSE NoFakeTimer]
    /\ UNCHANGED <<violations, trust_data, dpage, timer, page, pc, px>>

\* detect_fake_timer with a timer and a url: check_timer_reset fetches the
\* page twice and judges the two samples.
RunTimerChecked ==
    /\ detected.pc = "ra_timer"
    /\ timer_detected(dpage) /\ dpage.url
    /\ \E html1, html2 \in {NoClock, Clock119, Clock120, Clock125} :
         detected' = [detected EXCEPT
            !.pc = "ra_drip", !.fetch = "sampled",
            !.results.timer =
                fake_timer_verdict(dpage, reset_verdict(extract_timer_value(html1),
                                                        extract_timer_value(html2)))]
    /\ UNCHANGED <<violations, trust_data, dpage, timer, page, pc, px>>

\* detect_fake_timer with a timer and a url, and a fetch of check_timer_reset
\* raises: its except branch decides what detect_fake_timer gets.
RunTimerFetchRaises ==
    /\ detected.pc = "ra_timer"
    /\ timer_detected(dpage) /\ dpage.url
    /\ detected' =
         IF check_timer_reset_except.propagates
         THEN [detected EXCEPT !.pc = "ra_failed", !.fetch = "raised", !.raised_in = "timer"]
         ELSE [detected EXCEPT
                 !.pc = "ra_drip", !.fetch = "raised",
                 !.results.timer =
                     fake_timer_verdict(dpage, check_timer_reset_except.returned)]
    /\ UNCHANGED <<violations, trust_data, dpage, timer, page, pc, px>>

\* results["drip_pricing"] = detect_drip_pricing(html)
RunDrip ==
    /\ detected.pc = "ra_drip"
    /\ detected' = [detected EXCEPT !.pc = "ra_addons",
                                    !.results.drip_pricing = detect_drip_pricing_html(dpage)]
    /\ UNCHANGED <<violations, trust_data, dpage, timer, page, pc, px>>

\* results["addons"] = detect_addons(html)
RunAddons ==
    /\ detected.pc = "ra_addons"
    /\ detected' = [detected EXCEPT !.pc = "ra_mrp", !.results.addons = detect_addons(dpage)]
    /\ UNCHANGED <<violations, trust_data, dpage, timer, page, pc, px>>

\* results["mrp_inflation"] = detect_mrp_inflation(price, mrp); return results
RunMrpInflation ==
    /\ detected.pc = "ra_mrp"
    /\ detected' = [detected EXCEPT
            !.pc = "ra_done",
            !.results.mrp_inflation = detect_mrp_inflation(dpage.price, dpage.mrp)]
    /\ UNCHANGED <<violations, trust_data, dpage, timer, page, pc, px>>

\* The detector about to be called raises: run_all_detectors has no handler,
\* so the exception leaves it and no results dict is returned.
RunDetectorRaises ==
    /\ detected.pc \in {"ra_scarcity", "ra_timer", "ra_drip", "ra_addons", "ra_mrp"}
    /\ detected' = [detected EXCEPT !.pc = "ra_failed", !.raised_in = detected.pc]
    /\ UNCHANGED <<violations, trust_data, dpage, timer, page, pc, px>>

NextRunAll ==
    \/ RunScarcity
    \/ RunTimerNotChecked
    \/ RunTimerChecked
    \/ RunTimerFetchRaises
    \/ RunDrip
    \/ RunAddons
    \/ RunMrpInflation
    \/ RunDetectorRaises

SpecRunAll == InitRunAll /\ [][NextRunAll]_vars

\* Both timer checks of a page: detect_fake_timer within run_all_detectors
\* and Scraper._analyze_timer within /analyze.
InitTimerGate == InitRunAll \/ InitDetect
NextTimerGate == NextRunAll \/ NextDetect
SpecTimerGate == InitTimerGate /\ [][NextTimerGate]_vars

\* ---- C13 ----
\* A countdown was detected and the two-sample fetch failed.
C13_Inconclusive ==
    /\ detected.pc \in {"ra_drip", "ra_addons", "ra_mrp", "ra_done"}
    /\ timer_detected(dpage)
    /\ detected.fetch = "raised"

\* C13 (as amended): when a countdown is detected but the two-sample fetch
\* fails, the verdict reports the timer as present with the reset-on-refresh
\* flag false; the client-side-only flag is set exactly when the page has a
\* script timer and no server timestamp, and the missing-terms flag exactly
\* when the page has no validity / expiry / terms wording.
C13_InconclusiveAmended ==
    C13_Inconclusive =>
        /\ detected.results.timer.detected
        /\ ~detected.results.timer.flags.reset_on_refresh
        /\ detected.results.timer.flags.frontend_only <=>
             ("setInterval" \in dpage.hints /\ "data-expiry" \notin dpage.hints)
        /\ detected.results.timer.flags.missing_tnc <=>
             (PhraseTerms \notin dpage.text /\ "data-expiry" \notin dpage.hints)

\* C13 (as stated): when a countdown is detected but the two-sample fetch
\* fails, the verdict reports the timer as present with every suspicion flag
\* false.
C13_InconclusiveOriginal ==
    C13_Inconclusive =>
        /\ detected.results.timer.detected
        /\ ~detected.results.timer.flags.reset_on_refresh
        /\ ~detected.results.timer.flags.frontend_only
        /\ ~detected.results.timer.flags.missing_tnc

\* A page with a script-driven countdown and no terms wording went through a
\* failed two-sample fetch: reset-on-refresh is false, the other two flags set.
C13_Witness ==
    /\ C13_Inconclusive
    /\ dpage.hints = {"setInterval"}
    /\ dpage.text = {}
    /\ ~detected.results.timer.flags.reset_on_refresh
    /\ detected.results.timer.flags.frontend_only
    /\ detected.results.timer.flags.missing_tnc

\* ---- C14 ----
\* analyze has answered a request it accepted (the job was created).
C14_Answered == detected.pc \in {"done", "failed"}

C15_QuietPage ==
    /\ dpage.text = {}
    /\ ~dpage.small_print_fee
    /\ dpage.selected_addon_options = 0
    /\ \A i \in 1..Len(dpage.boxes) :
         dpage.boxes[i].checked # "absent" => dpage.boxes[i].label = PhraseGift
    /\ dpage.hints = {}
    /\ detected.new_timer <= get_timer_value(dpage.clock)

\* C15: for a page on which no detector's pattern matches, every detector
\* returns no finding, detect_all returns the empty list and
\* calculate_trust_score returns score 0 and grade A; whenever detect_all
\* returned a list, the empty one included, a trust assessment is produced.
C15_QuietPageGradeA ==
    detected.pc \in {"store", "done"} =>
        /\ trust_data # NoTrust
        /\ trust_data.grade \in {"A", "B", "C", "D", "F"}
        /\ C15_QuietPage =>
             /\ ~detect_fake_scarcity(dpage).detected
             /\ ~detect_drip_pricing(dpage).detected
             /\ ~detect_pre_ticked_addons(dpage).detected
             /\ ~detect_confirm_shaming(dpage).detected
             /\ ~detected.timer_analysis.fake_timer
             /\ violations = << >>
             /\ trust_data.score = 0
             /\ trust_data.grade = "A"

\* A page whose only markup is a ticked "gift wrap" box and a countdown that
\* read 0:01:59 after the refresh was analysed and graded A.
C15_Witness ==
    /\ detected.pc = "done"
    /\ C15_QuietPage
    /\ dpage.boxes = <<[checked |-> "checked", label |-> PhraseGift]>>
    /\ dpage.clock = Clock120
    /\ detected.new_timer = 119
    /\ violations = << >>
    /\ trust_data.grade = "A"

(***************************************************************************)
(* MRP authenticity: detectors/mrp_auth_checker.py, with the caller        *)
(* passing listed_mrp and price (the page itself then adds nothing), and   *)
(* detectors/mrp_inflation_detector.py on the same pair.                   *)
(*                                                                         *)
(* The estimated MRP is a quotient such as price / 0.65; it is kept as an  *)
(* exact fraction and every threshold is compared by cross-multiplication. *)
(***************************************************************************)

Frac(n, d) == [num |-> n, den |-> d]
NoFrac == Frac(None, 1)

\* The prices and listed MRPs a caller passes: None, 0, and figures on both
\* sides of the 500 and 2000 price bands and of the discount and inflation
\* thresholds.
MrpPrices == {None, 0, 300, 700, 1000, 3400}
ListedMrps ==
    {None, 0, 500, 575, 600, 650, 1000, 1150, 1200, 1300, 1301, 2000, 2334, 4000, 4600,
     5000, 12000}

\* discount_pct > pct, where
\* discount_pct = ((listed_mrp - price) / listed_mrp * 100) if listed_mrp > 0 else 0
discount_pct_above(listed_mrp, price, pct) ==
    IF listed_mrp > 0 THEN (listed_mrp - price) * 100 > pct * listed_mrp ELSE 0 > pct

estimate_realistic_mrp_by_band_only(price, listed_mrp) ==
    IF ~Truthy(price) \/ price <= 0 THEN NoFrac
    ELSE IF price < 500 THEN Frac(price * 10, 6)
    ELSE IF price > 2000 THEN Frac(price * 100, 85)
    ELSE Frac(price * 10, 7)

\* _estimate_realistic_mrp(price, discount_pct), the discount being that of
\* listed_mrp against price.
estimate_realistic_mrp(price, listed_mrp) ==
    IF ~Truthy(price) \/ price <= 0 THEN NoFrac
    ELSE IF discount_pct_above(listed_mrp, price, 70) THEN Frac(price * 100, 65)
    ELSE IF price < 500 THEN Frac(price * 10, 6)
    ELSE IF price > 2000 THEN Frac(price * 100, 85)
    ELSE Frac(price * 10, 7)

\* inflation > pct, where
\* inflation = ((listed_mrp - estimated_mrp) / estimated_mrp * 100) if estimated_mrp > 0 else 0
inflation_above(listed_mrp, est, pct) ==
    IF est.num > 0
    THEN (listed_mrp * est.den - est.num) * 100 > pct * est.num
    ELSE 0 > pct

inflated_above_30_percent(listed_mrp, est, price) ==
    \/ inflation_above(listed_mrp, est, 30)
    \/ discount_pct_above(listed_mrp, price, 70)

\* result["inflated"] on the estimation path: inflation > 15, else
\* discount_pct > 70.
inflated_by_estimate(listed_mrp, est, price) ==
    \/ inflation_above(listed_mrp, est, 15)
    \/ discount_pct_above(listed_mrp, price, 70)

MrpNotChecked == [checked |-> FALSE, estimated_mrp |-> NoFrac, inflated |-> FALSE, source |-> "none"]

\* check_mrp_authenticity(html, url, listed_mrp, price): the early returns
\* without MRP or price, then the estimation (the official-website lookup
\* always yields None).
check_mrp_authenticity(listed_mrp, price) ==
    IF ~Truthy(listed_mrp) \/ ~Truthy(price)
    THEN [checked |-> TRUE, estimated_mrp |-> NoFrac, inflated |-> FALSE,
          source |-> "estimation"]
    ELSE LET est == estimate_realistic_mrp(price, listed_mrp)
         IN [checked |-> TRUE, estimated_mrp |-> est,
             inflated |-> IF est # NoFrac
                          THEN inflated_by_estimate(listed_mrp, est, price) ELSE FALSE,
             source |-> "estimation"]

MrpStart == [auth |-> MrpNotChecked, inflation |-> NotRun]

InitMrp ==
    /\ page \in [price : MrpPrices, listed_mrp : ListedMrps]
    /\ pc = "mrp"
    /\ px = MrpStart
    /\ IdleTrust /\ IdleDetect /\ IdleTimer

\* result = check_mrp_authenticity(html, url, listed_mrp, price)
CheckMrpAuthenticity ==
    /\ pc = "mrp"
    /\ ~px.auth.checked
    /\ px' = [px EXCEPT !.auth = check_mrp_authenticity(page.listed_mrp, page.price)]
    /\ UNCHANGED <<violations, trust_data, dpage, detected, timer, page, pc>>

\* result = detect_mrp_inflation(price, mrp)
DetectMrpInflation ==
    /\ pc = "mrp"
    /\ ~px.inflation.ran
    /\ px' = [px EXCEPT !.inflation = detect_mrp_inflation(page.price, page.listed_mrp)]
    /\ UNCHANGED <<violations, trust_data, dpage, detected, timer, page, pc>>

NextMrp ==
    \/ CheckMrpAuthenticity
    \/ DetectMrpInflation

SpecMrp == InitMrp /\ [][NextMrp]_vars

\* ---- C16 ----
\* The estimator ran on a positive price and a positive listed MRP.
C16_Estimated ==
    /\ pc = "mrp"
    /\ px.auth.checked
    /\ page.price > 0
    /\ page.listed_mrp > 0

\* The fraction f equals n / d.
FracIs(f, n, d) == f # NoFrac /\ f.num * d = n * f.den

\* C16 (as amended): the benchmark is price / 0.65 when the apparent
\* discount exceeds 0.7, and otherwise depends on the price alone:
\* price / 0.6 below 500, price / 0.85 above 2000, price / 0.7 in between;
\* for price 1000 and listed MRP 5000 it is 1000 / 0.65 (about 1538.46).
C16_BenchmarkAmended ==
    C16_Estimated =>
        /\ (page.listed_mrp - page.price) * 10 > 7 * page.listed_mrp =>
             FracIs(px.auth.estimated_mrp, page.price * 100, 65)
        /\ (page.listed_mrp - page.price) * 10 <= 7 * page.listed_mrp =>
             /\ page.price < 500 => FracIs(px.auth.estimated_mrp, page.price * 10, 6)
             /\ page.price > 2000 => FracIs(px.auth.estimated_mrp, page.price * 100, 85)
             /\ (page.price >= 500 /\ page.price <= 2000) =>
                  FracIs(px.auth.estimated_mrp, page.price * 10, 7)
        /\ (page.price = 1000 /\ page.listed_mrp = 5000) =>
             FracIs(px.auth.estimated_mrp, 100000, 65)

\* C16 (as stated): the benchmark is price x 2.2 when the apparent discount
\* exceeds 0.6, price x 1.7 when it is above 0.4 and at most 0.6, and the
\* listed MRP otherwise; for price 1000 and listed MRP 5000 it is 2200.
C16_BenchmarkOriginal ==
    C16_Estimated =>
        LET over60 == (page.listed_mrp - page.price) * 10 > 6 * page.listed_mrp
            over40 == (page.listed_mrp - page.price) * 10 > 4 * page.listed_mrp
        IN /\ over60 => FracIs(px.auth.estimated_mrp, page.price * 22, 10)
           /\ (over40 /\ ~over60) => FracIs(px.auth.estimated_mrp, page.price * 17, 10)
           /\ ~over40 => FracIs(px.auth.estimated_mrp, page.listed_mrp, 1)
           /\ (page.price = 1000 /\ page.listed_mrp = 5000) =>
                FracIs(px.auth.estimated_mrp, 2200, 1)

\* The estimator ran on price 1000 and listed MRP 5000 and gave 1000 / 0.65.
C16_Witness ==
    /\ C16_Estimated
    /\ page.price = 1000
    /\ page.listed_mrp = 5000
    /\ px.auth.estimated_mrp = Frac(100000, 65)

\* ---- C17 ----
\* listedMrp / benchmarkMrp > n / 100
C17_FactorAbove(n) ==
    page.listed_mrp * px.auth.estimated_mrp.den * 100 > n * px.auth.estimated_mrp.num

C17_DiscountAbove70 == (page.listed_mrp - page.price) * 10 > 7 * page.listed_mrp

C17_Checked ==
    /\ pc = "mrp"
    /\ px.auth.checked
    /\ px.inflation.ran
    /\ page.price > 0
    /\ page.listed_mrp > 0

\* C17 (as amended): given a positive selling price and a listed MRP,
\* check_mrp_authenticity flags the MRP as inflated exactly when
\* listedMrp / benchmarkMrp > 1.15 or the apparent discount exceeds 0.7 (so
\* in particular whenever the factor exceeds 1.3), and detect_mrp_inflation
\* flags it exactly when listedMrp / price >= 1.3.
C17_FlaggedAmended ==
    C17_Checked =>
        /\ px.auth.inflated <=> (C17_FactorAbove(115) \/ C17_DiscountAbove70)
        /\ C17_FactorAbove(130) => px.auth.inflated
        /\ px.inflation.detected <=> page.listed_mrp * 10 >= 13 * page.price

\* C17 (as stated): the MRP is flagged whenever listedMrp / benchmarkMrp >
\* 1.3 and whenever the apparent discount exceeds 0.7, and is not flagged
\* when the factor is at most 1.3 and the discount at most 0.7.
C17_FlaggedOriginal ==
    C17_Checked =>
        /\ C17_FactorAbove(130) => px.auth.inflated
        /\ C17_DiscountAbove70 => px.auth.inflated
        /\ (~C17_FactorAbove(130) /\ ~C17_DiscountAbove70) => ~px.auth.inflated

\* Price 300 against a listed MRP of 600: the benchmark is 500, the factor
\* 1.2 and the discount 0.5, and the MRP was flagged.
C17_Witness ==
    /\ C17_Checked
    /\ page.price = 300
    /\ page.listed_mrp = 600
    /\ px.auth.inflated
    /\ px.inflation.detected

\* ---- C11 ----
\* C11: if one detector raises while detect_all runs, that detector
\* contributes no finding, every other detector still runs, and the analysis
\* still ends with a trust assessment instead of an error.
C11_DetectorIsolation ==
    detected.raised_in # "none" =>
        /\ Range(detected.ran) = Range(DetectorOrder) \ {detected.raised_in}
        /\ \A i \in 1..Len(violations) : violations[i].type # detected.raised_in
        /\ detected.pc # "failed"
        /\ detected.response.error = "none"
        /\ detected.pc = "done" => trust_data # NoTrust

\* ---- C12 ----
\* A two-sample check has ended in failure: a fetch raised or a sample held
\* no extractable timer value.
C12_CheckTimerResetFailed ==
    /\ timer # << >>
    /\ timer.pc \notin {"fetch1", "sleep", "fetch2", "verdict"}
    /\ (timer.raised \/ timer.t1 = None \/ timer.t2 = None)

C12_AnalyzeTimerFailed ==
    /\ detected # << >>
    /\ detected.refreshed
    /\ detected.new_timer = None

\* C12: any failure during the two-sample timer check (a fetch raising, a
\* sample without an extractable timer value) is swallowed: the check reports
\* "not suspicious" and returns normally, both in check_timer_reset and in
\* _analyze_timer's refresh.
C12_TimerFailureSwallowed ==
    /\ C12_CheckTimerResetFailed => (timer.pc = "done" /\ ~timer.returned)
    /\ C12_AnalyzeTimerFailed =>
         /\ ~detected.timer_analysis.resets_on_refresh
         /\ detected.timer_analysis.present

\* check_timer_reset ended after its second fetch raised, with a first
\* sample of 120 s.
C12_Witness ==
    /\ C12_CheckTimerResetFailed
    /\ timer.raised
    /\ timer.fetches = 2
    /\ timer.t1 = 120
    /\ timer.pc = "done"

\* ---- C18 ----
\* The strikethrough figures of the page that lie within the price bounds.
C18_InBoundsCandidates ==
    {page.elems[i].figure : i \in {j \in 1..Len(page.elems) :
        /\ page.elems[j].tag = "del"
        /\ MinPrice <= page.elems[j].figure
        /\ page.elems[j].figure <= MaxPrice}}

\* The strikethrough tier has just run and its result is in mrp_onsite.
C18_StrikethroughRan ==
    /\ pc = "infer"
    /\ px.consulted # << >>
    /\ px.consulted[Len(px.consulted)] = "strikethrough"

\* C18: _detect_mrp_strikethrough returns the maximum of the in-bounds
\* strikethrough candidates and nothing when there is none; a candidate
\* outside the bounds is never the result and never changes it.
C18_StrikethroughMax ==
    C18_StrikethroughRan =>
        IF C18_InBoundsCandidates = {}
        THEN px.mrp_onsite = None
        ELSE /\ px.mrp_onsite \in C18_InBoundsCandidates
             /\ \A c \in C18_InBoundsCandidates : px.mrp_onsite >= c

\* Two strikethrough figures on one page, 2999 and 3490: 3490 is returned.
C18_Witness ==
    /\ C18_StrikethroughRan
    /\ C18_InBoundsCandidates = {2999, 3490}
    /\ px.mrp_onsite = 3490

\* ---- C19 ----
\* The tiers that can supply an MRP, most reliable first, and the rank of a
\* confidence tag.
C19_Reliability(tier) ==
    CASE tier \in {"text", "site", "json_ld"} -> 3
      [] tier = "strikethrough" -> 2
      [] tier = "inferred" -> 1
      [] OTHER -> 0

C19_Rank(confidence) ==
    CASE confidence = "high" -> 3
      [] confidence = "medium" -> 2
      [] confidence = "low" -> 1
      [] OTHER -> 0

C19_Tags(tier) ==
    CASE tier \in {"text", "site", "json_ld"} -> [mrp_source |-> "onsite", confidence |-> "high"]
      [] tier = "strikethrough" -> [mrp_source |-> "onsite", confidence |-> "medium"]
      [] tier = "inferred" -> [mrp_source |-> "inferred", confidence |-> "low"]
      [] OTHER -> [mrp_source |-> "None", confidence |-> "None"]

C19_SupplyingTiers == {"text", "site", "json_ld", "strikethrough", "inferred"}

C20_StockPattern(text) ==
    \/ \E w \in {<<"left">>, <<"remaining">>, <<"in", "stock">>} :
          InText(<<"only", "<num>">> \o w, text)
    \/ InText(<<"few", "left">>, text)
    \/ InText(<<"low", "stock">>, text)

C20_ScarcityFindings ==
    {i \in 1..Len(violations) : violations[i].type = "fake_scarcity"}

\* C20: the scarcity detector of the analysis pipeline reports a finding
\* only when the text holds a quantity-bearing stock pattern, so "Only
\* Rs499, hurry!" gives none, and "Only 2 left in stock" gives a finding of
\* confidence high.
C20_ScarcityOnlyOnStockPattern ==
    detected # << >> /\ detected.pc \in {"score", "store", "done"} =>
        /\ C20_ScarcityFindings # {} => C20_StockPattern(page_text(dpage))
        /\ PhraseStock \in dpage.text =>
              \E i \in C20_ScarcityFindings : violations[i].confidence = "high"

(***************************************************************************)
(* The SQLite store (models.py) under the requests that use it, each a     *)
(* thread of the server: two /analyze requests (SpecDb), or one /analyze   *)
(* and one GET /history (SpecHistory).  Every Database method opens its    *)
(* own connection, and each statement with its commit is one step.  A      *)
(* connection whose INSERT raised is never closed: it stays open, holding  *)
(* SQLite's write lock, for as long as the exception is being handled      *)
(* (lock names that thread).  While the lock is held another connection's  *)
(* write waits for it, up to the 5 s timeout of sqlite3.connect, and then  *)
(* raises sqlite3.OperationalError.  The store is kept in page, the        *)
(* threads in px, and pc = "db".                                           *)
(***************************************************************************)

\* The latest reading of datetime.now() drawn.
MaxClock == 3

Urls == {"u1", "u2"}
Analyses == {"a1", "a2"}
Readers == {"h1"}
Threads == Analyses \cup Readers

\* price_data['current'] of the two analyses (0: no price resolved).
ResolvedPrices == [a1 |-> {0, 499}, a2 |-> {0, 599}]

\* request.args.get('limit', 30)
Limits == {1, 2, 30}

\* The tables before the requests arrive: empty, or u1 known with two prices.
EmptyStore ==
    [urls |-> << >>, prices |-> << >>, jobs |-> << >>, now |-> 2, lock |-> "none"]
KnownStore ==
    [urls |-> <<[url |-> "u1", last_scraped_at |-> 1]>>,
     prices |-> <<[url_id |-> 1, price |-> 450, timestamp |-> 0],
                  [url_id |-> 1, price |-> 470, timestamp |-> 1]>>,
     jobs |-> << >>,
     now |-> 2,
     lock |-> "none"]

\* SELECT id FROM urls WHERE url = ?: the row id, None when there is no row.
select_url_id(store, url) ==
    IF \E i \in 1..Len(store.urls) : store.urls[i].url = url
    THEN CHOOSE i \in 1..Len(store.urls) : store.urls[i].url = url
    ELSE None

\* SELECT price, timestamp FROM prices WHERE url_id = ? ORDER BY timestamp
\* DESC LIMIT ?, then reversed(rows).
price_history(store, url_id, limit) ==
    LET Own == {i \in 1..Len(store.prices) : store.prices[i].url_id = url_id}
        Top == {i \in Own :
                  Cardinality({j \in Own :
                      store.prices[j].timestamp > store.prices[i].timestamp}) < limit}
        Asc[k \in 0..Cardinality(Top)] ==
            IF k = 0 THEN << >>
            ELSE LET i == CHOOSE x \in Top :
                            Cardinality({j \in Top :
                                store.prices[j].timestamp < store.prices[x].timestamp}) = k - 1
                 IN Append(Asc[k - 1],
                           [price |-> store.prices[i].price, ts |-> store.prices[i].timestamp])
    IN Asc[Cardinality(Top)]

\* update_job's finished_at: set for 'done' and 'failed' only.
job_finished_at(status, now) == IF status \in {"done", "failed"} THEN now ELSE None

\* Database.update_job: one UPDATE of the four columns.
update_job(store, job_id, status, has_result, has_error) ==
    [store EXCEPT !.jobs[job_id] =
        [@ EXCEPT !.status = status,
                  !.result_json = has_result,
                  !.error_message = has_error,
                  !.finished_at = job_finished_at(status, store.now)]]

\* A thread: its request, the position in its handler, the locals url_id
\* and job_id, the history it read and the status it answered (0: none
\* yet); wrote tells whether its INSERT INTO prices stored a row.
ThreadStart(t, url, price, limit) ==
    [url |-> url, price |-> price, limit |-> limit,
     pc |-> IF t \in Analyses THEN "create_job" ELSE "history",
     after |-> "-", url_id |-> None, job_id |-> None, wrote |-> FALSE,
     history |-> << >>, status |-> 0]

\* A thread that takes no part in the run.
ThreadOff == [ThreadStart("a1", "u1", 0, 30) EXCEPT !.pc = "off"]

InitDb ==
    /\ pc = "db"
    /\ page \in {EmptyStore, KnownStore}
    /\ \E u1 \in Urls, u2 \in Urls :
       \E p1 \in ResolvedPrices.a1, p2 \in ResolvedPrices.a2 :
         px = [t \in Threads |->
                 IF t = "a1" THEN ThreadStart(t, u1, p1, 30)
                 ELSE IF t = "a2" THEN ThreadStart(t, u2, p2, 30)
                 ELSE ThreadOff]
    /\ IdleTrust /\ IdleDetect /\ IdleTimer

\* datetime.now() moves on.
ClockTick ==
    /\ pc = "db"
    /\ page.now < MaxClock
    /\ page' = [page EXCEPT !.now = @ + 1]
    /\ UNCHANGED <<violations, trust_data, dpage, detected, timer, pc, px>>

\* job_id = db.create_job(url): INSERT INTO jobs (url, status) 'pending'.
CreateJob(t) ==
    /\ pc = "db" /\ px[t].pc = "create_job"
    /\ page.lock = "none"
    /\ page' = [page EXCEPT !.jobs = Append(@,
                    [url |-> px[t].url, status |-> "pending", finished_at |-> None,
                     result_json |-> FALSE, error_message |-> FALSE])]
    /\ px' = [px EXCEPT ![t].job_id = Len(page.jobs) + 1, ![t].pc = "running"]
    /\ UNCHANGED <<violations, trust_data, dpage, detected, timer, pc>>

\* db.update_job(job_id, 'running')
JobRunning(t) ==
    /\ pc = "db" /\ px[t].pc = "running"
    /\ page.lock = "none"
    /\ page' = update_job(page, px[t].job_id, "running", FALSE, FALSE)
    /\ px' = [px EXCEPT ![t].pc = "scrape"]
    /\ UNCHANGED <<violations, trust_data, dpage, detected, timer, pc>>

\* scraper.scrape returns an error dict: the job fails and analyze answers 422.
ScrapeFailed(t) ==
    /\ pc = "db" /\ px[t].pc = "scrape"
    /\ page.lock = "none"
    /\ page' = update_job(page, px[t].job_id, "failed", FALSE, TRUE)
    /\ px' = [px EXCEPT ![t].pc = "returned", ![t].status = 422]
    /\ UNCHANGED <<violations, trust_data, dpage, detected, timer, pc>>

\* The scrape, the detectors and the trust score went through:
\* if price_data.get('current'): db.insert_price(...), then the history.
Analysed(t) ==
    /\ pc = "db" /\ px[t].pc = "scrape"
    /\ px' = [px EXCEPT ![t].pc = "select_url",
                        ![t].after = IF Truthy(px[t].price) THEN "insert_price"
                                     ELSE "read_history"]
    /\ UNCHANGED <<violations, trust_data, dpage, detected, timer, page, pc>>

\* The scrape, a detector or the trust score raises.
AnalysisRaises(t) ==
    /\ pc = "db" /\ px[t].pc = "scrape"
    /\ px' = [px EXCEPT ![t].pc = "except"]
    /\ UNCHANGED <<violations, trust_data, dpage, detected, timer, page, pc>>

\* get_or_create_url: SELECT id FROM urls WHERE url = ?
GetUrlSelect(t) ==
    /\ pc = "db" /\ px[t].pc = "select_url"
    /\ LET row == select_url_id(page, px[t].url)
       IN px' = [px EXCEPT ![t].url_id = row,
                           ![t].pc = IF row # None THEN px[t].after ELSE "insert_url"]
    /\ UNCHANGED <<violations, trust_data, dpage, detected, timer, page, pc>>

\* get_or_create_url: INSERT INTO urls (...) when the SELECT found no row.
GetUrlInsert(t) ==
    /\ pc = "db" /\ px[t].pc = "insert_url"
    /\ page.lock = "none"
    /\ select_url_id(page, px[t].url) = None
    /\ page' = [page EXCEPT !.urls = Append(@,
                    [url |-> px[t].url, last_scraped_at |-> page.now])]
    /\ px' = [px EXCEPT ![t].url_id = Len(page.urls) + 1, ![t].pc = px[t].after]
    /\ UNCHANGED <<violations, trust_data, dpage, detected, timer, pc>>

\* The same INSERT after another thread stored the url: the UNIQUE
\* constraint on urls.url raises sqlite3.IntegrityError (or the write lock
\* of the other connection sqlite3.OperationalError), which no handler of
\* models.py catches.  In analyze it reaches the except branch, in
\* get_history it leaves the view.
GetUrlInsertRaises(t) ==
    /\ pc = "db" /\ px[t].pc = "insert_url"
    /\ page.lock = "none"
    /\ select_url_id(page, px[t].url) # None
    /\ px' = [px EXCEPT ![t].pc = IF t \in Analyses THEN "except" ELSE "returned",
                        ![t].status = IF t \in Analyses THEN 0 ELSE 500]
    /\ page' = [page EXCEPT !.lock = IF t \in Analyses THEN t ELSE @]
    /\ UNCHANGED <<violations, trust_data, dpage, detected, timer, pc>>

\* A write of the try block (update_job of the scrape error, the INSERTs, the
\* UPDATE of urls, update_job 'done') waits for the write lock until the
\* timeout: sqlite3.OperationalError, database is locked.
WriteTimesOut(t) ==
    /\ pc = "db"
    /\ page.lock \notin {"none", t}
    /\ px[t].pc \in {"scrape", "insert_url", "insert_price", "update_scraped", "finish"}
    /\ px' = [px EXCEPT ![t].pc = "except"]
    /\ UNCHANGED <<violations, trust_data, dpage, detected, timer, page, pc>>

\* insert_price: INSERT INTO prices (url_id, price, timestamp); an
\* IntegrityError (UNIQUE(url_id, timestamp)) is passed over.
InsertPrice(t) ==
    /\ pc = "db" /\ px[t].pc = "insert_price"
    /\ page.lock = "none"
    /\ LET taken == \E i \in 1..Len(page.prices) :
                        /\ page.prices[i].url_id = px[t].url_id
                        /\ page.prices[i].timestamp = page.now
       IN /\ page' = IF taken THEN page
                     ELSE [page EXCEPT !.prices = Append(@,
                              [url_id |-> px[t].url_id, price |-> px[t].price,
                               timestamp |-> page.now])]
          /\ px' = [px EXCEPT ![t].wrote = ~taken, ![t].pc = "update_scraped"]
    /\ UNCHANGED <<violations, trust_data, dpage, detected, timer, pc>>

\* db.update_url_scraped(url): UPDATE urls SET last_scraped_at = ?
UpdateUrlScraped(t) ==
    /\ pc = "db" /\ px[t].pc = "update_scraped"
    /\ page.lock = "none"
    /\ page' = [page EXCEPT !.urls =
                    [i \in 1..Len(page.urls) |->
                        IF page.urls[i].url = px[t].url
                        THEN [page.urls[i] EXCEPT !.last_scraped_at = page.now]
                        ELSE page.urls[i]]]
    /\ px' = [px EXCEPT ![t].pc = "select_url", ![t].after = "read_history"]
    /\ UNCHANGED <<violations, trust_data, dpage, detected, timer, pc>>

\* get_price_history's query, after its get_or_create_url.
ReadHistory(t) ==
    /\ pc = "db" /\ px[t].pc = "read_history"
    /\ px' = [px EXCEPT
                ![t].history = price_history(page, px[t].url_id, px[t].limit),
                ![t].pc = IF t \in Analyses THEN "finish" ELSE "returned",
                ![t].status = IF t \in Analyses THEN 0 ELSE 200]
    /\ UNCHANGED <<violations, trust_data, dpage, detected, timer, page, pc>>

\* db.update_job(job_id, 'done', result_json=result); return 200
JobDone(t) ==
    /\ pc = "db" /\ px[t].pc = "finish"
    /\ page.lock = "none"
    /\ page' = update_job(page, px[t].job_id, "done", TRUE, FALSE)
    /\ px' = [px EXCEPT ![t].pc = "returned", ![t].status = 200]
    /\ UNCHANGED <<violations, trust_data, dpage, detected, timer, pc>>

\* except Exception: db.update_job(job_id, 'failed', error_message=str(e))
JobFailed(t) ==
    /\ pc = "db" /\ px[t].pc = "except"
    /\ page.lock = "none"
    /\ page' = update_job(page, px[t].job_id, "failed", FALSE, TRUE)
    /\ px' = [px EXCEPT ![t].pc = "returned", ![t].status = 500]
    /\ UNCHANGED <<violations, trust_data, dpage, detected, timer, pc>>

\* The update_job of the except branch times out on the write lock, which
\* the thread's own unclosed connection may be holding: the exception leaves
\* analyze, the job keeps its status, and the connection is released.
JobFailedRaises(t) ==
    /\ pc = "db" /\ px[t].pc = "except"
    /\ page.lock # "none"
    /\ page' = [page EXCEPT !.lock = IF @ = t THEN "none" ELSE @]
    /\ px' = [px EXCEPT ![t].pc = "returned", ![t].status = 500]
    /\ UNCHANGED <<violations, trust_data, dpage, detected, timer, pc>>

\* GET /history?url=...&limit=...: db.get_price_history(url, limit=limit)
GetHistory(t) ==
    /\ pc = "db" /\ px[t].pc = "history"
    /\ px' = [px EXCEPT ![t].pc = "select_url", ![t].after = "read_history"]
    /\ UNCHANGED <<violations, trust_data, dpage, detected, timer, page, pc>>

\* The steps of the requests, apart from a wait on the write lock that
\* times out.
DbSteps ==
    \/ ClockTick
    \/ \E t \in Analyses : CreateJob(t)
    \/ \E t \in Analyses : JobRunning(t)
    \/ \E t \in Analyses : ScrapeFailed(t)
    \/ \E t \in Analyses : Analysed(t)
    \/ \E t \in Analyses : AnalysisRaises(t)
    \/ \E t \in Threads : GetUrlSelect(t)
    \/ \E t \in Threads : GetUrlInsert(t)
    \/ \E t \in Threads : GetUrlInsertRaises(t)
    \/ \E t \in Analyses : InsertPrice(t)
    \/ \E t \in Analyses : UpdateUrlScraped(t)
    \/ \E t \in Threads : ReadHistory(t)
    \/ \E t \in Analyses : JobDone(t)
    \/ \E t \in Analyses : JobFailed(t)
    \/ \E t \in Analyses : JobFailedRaises(t)

NextDb ==
    \/ DbSteps
    \/ \E t \in Analyses : WriteTimesOut(t)

SpecDb == InitDb /\ [][NextDb]_vars

\* One analysis and one GET /history.
InitHistory ==
    /\ pc = "db"
    /\ page \in {EmptyStore, KnownStore}
    /\ \E u1 \in Urls, uh \in Urls, lim \in Limits, p1 \in ResolvedPrices.a1 :
         px = [t \in Threads |->
                 IF t = "a1" THEN ThreadStart(t, u1, p1, 30)
                 ELSE IF t = "h1" THEN ThreadStart(t, uh, 0, lim)
                 ELSE ThreadOff]
    /\ IdleTrust /\ IdleDetect /\ IdleTimer

NextHistory ==
    \/ DbSteps
    \/ \E t \in Readers : GetHistory(t)

SpecHistory == InitHistory /\ [][NextHistory]_vars

(***************************************************************************)
(* The rate limiter of app.py: the rate_limit decorator around analyze.    *)
(* The server started by app.run serves each request on its own thread,    *)
(* and rate_limit_store is shared without a lock, so the decorator's       *)
(* statements of two requests interleave.  page holds rate_limit_store,    *)
(* the wall clock and the record of the requests handed to analyze; px     *)
(* holds the request threads.                                              *)
(***************************************************************************)
RATE_LIMIT_REQUESTS == 5
RATE_LIMIT_WINDOW == 60

\* The wall clock advances in steps of TickSeconds, MaxTicks times.
TickSeconds == 30
MaxTicks == 2
\* The number of requests that arrive in one behavior.
MaxArrivals == 6

RateTimes == {k * TickSeconds : k \in 0..MaxTicks}
Clients == {"10.0.0.1", "10.0.0.2"}
RateThreads == {"r1", "r2"}

\* A list of request times is kept as the number of entries per time: the
\* decorator only filters the list and takes its length.
NoEntries == [req_time \in RateTimes |-> 0]

RECURSIVE SumOver(_, _)
SumOver(times, among) ==
    IF among = {} THEN 0
    ELSE LET r == CHOOSE x \in among : TRUE
         IN times[r] + SumOver(times, among \ {r})

\* len(list)
LenEntries(times) == SumOver(times, RateTimes)

\* list.append(now)
AppendEntry(times, now) == [times EXCEPT ![now] = @ + 1]

\* [req_time for req_time in rate_limit_store[client_id]
\*  if now - req_time < RATE_LIMIT_WINDOW]
clean_old_entries(times, now) ==
    [req_time \in RateTimes |->
        IF now - req_time < RATE_LIMIT_WINDOW THEN times[req_time] ELSE 0]

RateIdle == [pc |-> "idle", client_id |-> "-", now |-> 0, kept |-> NoEntries]

InitRate ==
    /\ pc = "rate"
    /\ page = [store |-> [c \in Clients |-> NoEntries],
               now |-> 0,
               admitted |-> [c \in Clients |-> NoEntries],
               arrivals |-> 0]
    /\ px = [t \in RateThreads |-> RateIdle]
    /\ IdleTrust /\ IdleDetect /\ IdleTimer

\* time.time() moves on.
RateClockTick ==
    /\ pc = "rate"
    /\ page.now < MaxTicks * TickSeconds
    /\ page' = [page EXCEPT !.now = @ + TickSeconds]
    /\ UNCHANGED <<violations, trust_data, dpage, detected, timer, pc, px>>

\* A request reaches decorated_function: client_id and now are taken.
RateArrive(t) ==
    /\ pc = "rate"
    /\ px[t].pc = "idle"
    /\ page.arrivals < MaxArrivals
    /\ \E c \in Clients :
         px' = [px EXCEPT ![t] = [pc |-> "clean", client_id |-> c, now |-> page.now,
                                  kept |-> NoEntries]]
    /\ page' = [page EXCEPT !.arrivals = @ + 1]
    /\ UNCHANGED <<violations, trust_data, dpage, detected, timer, pc>>

\* The list comprehension over the client's entries is evaluated.
RateCleanRead(t) ==
    /\ pc = "rate"
    /\ px[t].pc = "clean"
    /\ px' = [px EXCEPT ![t].pc = "assign",
                        ![t].kept = clean_old_entries(page.store[px[t].client_id], px[t].now)]
    /\ UNCHANGED <<violations, trust_data, dpage, detected, timer, page, pc>>

\* Its value is assigned to rate_limit_store[client_id].
RateCleanAssign(t) ==
    /\ pc = "rate"
    /\ px[t].pc = "assign"
    /\ page' = [page EXCEPT !.store[px[t].client_id] = px[t].kept]
    /\ px' = [px EXCEPT ![t].pc = "check"]
    /\ UNCHANGED <<violations, trust_data, dpage, detected, timer, pc>>

\* len(rate_limit_store[client_id]) >= RATE_LIMIT_REQUESTS: answer 429.
RateReject(t) ==
    /\ pc = "rate"
    /\ px[t].pc = "check"
    /\ LenEntries(page.store[px[t].client_id]) >= RATE_LIMIT_REQUESTS
    /\ px' = [px EXCEPT ![t] = RateIdle]
    /\ UNCHANGED <<violations, trust_data, dpage, detected, timer, page, pc>>

\* The check passes.
RatePass(t) ==
    /\ pc = "rate"
    /\ px[t].pc = "check"
    /\ LenEntries(page.store[px[t].client_id]) < RATE_LIMIT_REQUESTS
    /\ px' = [px EXCEPT ![t].pc = "append"]
    /\ UNCHANGED <<violations, trust_data, dpage, detected, timer, page, pc>>

\* rate_limit_store[client_id].append(now), then f is called.
RateAppend(t) ==
    /\ pc = "rate"
    /\ px[t].pc = "append"
    /\ page' = [page EXCEPT !.store[px[t].client_id] = AppendEntry(@, px[t].now),
                            !.admitted[px[t].client_id] = AppendEntry(@, px[t].now)]
    /\ px' = [px EXCEPT ![t] = RateIdle]
    /\ UNCHANGED <<violations, trust_data, dpage, detected, timer, pc>>

NextRate ==
    \/ RateClockTick
    \/ \E t \in RateThreads : RateArrive(t)
    \/ \E t \in RateThreads : RateCleanRead(t)
    \/ \E t \in RateThreads : RateCleanAssign(t)
    \/ \E t \in RateThreads : RateReject(t)
    \/ \E t \in RateThreads : RatePass(t)
    \/ \E t \in RateThreads : RateAppend(t)

SpecRate == InitRate /\ [][NextRate]_vars

\* ---- C21 ----
\* A pattern that captures an explicit quantity matched: "[only] N left /
\* remaining / in stock" or "N items / units left".
C21_NumberCaptured ==
    \/ \E w \in {<<"left">>, <<"remaining">>, <<"in", "stock">>} :
          InText(<<"<num>">> \o w, dpage.text)
    \/ \E u \in {<<"items">>, <<"item">>, <<"units">>, <<"unit">>} :
        \E w \in {<<"left">>, <<"remaining">>} :
          InText(<<"<num>">> \o u \o w, dpage.text)

\* C21: detect_scarcity reports confidence high whenever a matched pattern
\* captured an explicit number, whatever else matched, and medium only
\* when no matched pattern carries a number.
C21_HighWhenNumberCaptured ==
    detected.results.scarcity.ran =>
        /\ C21_NumberCaptured =>
              /\ detected.results.scarcity.detected
              /\ detected.results.scarcity.confidence = "high"
        /\ detected.results.scarcity.confidence = "medium" => ~C21_NumberCaptured

\* ---- C22 ----
\* The pre-selected add-on elements of the page, each counted once: the
\* ticked checkboxes with add-on wording and the selected add-on options.
C22_PreSelectedAddons ==
    Cardinality({i \in 1..Len(dpage.boxes) :
        /\ dpage.boxes[i].checked # "absent"
        /\ \E kw \in {"warranty", "insurance", "protection", "extended", "add-on",
                       "accessory"} :
              \E k \in 1..Len(dpage.boxes[i].label) : dpage.boxes[i].label[k] = kw})
    + dpage.selected_addon_options

C22_AddonFindings ==
    {i \in 1..Len(violations) : violations[i].type = "pre_ticked_addon"}

\* C22: detect_pre_ticked_addons reports confidence high exactly when at
\* least two independent pre-selected add-on elements are found; a single
\* one, however its checked attribute is written, gives confidence medium.
C22_HighOnlyForTwoAddons ==
    detected.pc \in {"score", "store", "done"} =>
        /\ (C22_AddonFindings # {}) = (C22_PreSelectedAddons >= 1)
        /\ \A i \in C22_AddonFindings :
              (violations[i].confidence = "high") = (C22_PreSelectedAddons >= 2)

\* ---- C23 ----
\* The state is one of run_all_detectors (otherwise of /analyze).
C23_InRunAll == "results" \in DOMAIN detected

\* The page shows no countdown and carries no timer markup or script.
C23_NoCountdown ==
    /\ dpage.clock.fmt = "none"
    /\ IF C23_InRunAll THEN dpage.hints = {} ELSE "countdown" \notin dpage.hints

\* A second fetch or a refresh of the page was started.
C23_SecondFetch ==
    IF C23_InRunAll THEN detected.fetch # "none" ELSE detected.refreshed

\* C23: when no countdown-like element is detected the timer check
\* short-circuits: the verdict has present / detected false and every flag
\* false, and no second fetch or refresh is made; the two-sample check runs
\* only after a countdown was detected.
C23_ShortCircuit ==
    /\ C23_SecondFetch => ~C23_NoCountdown
    /\ C23_NoCountdown /\ C23_InRunAll /\ detected.results.timer.ran =>
          /\ ~detected.results.timer.detected
          /\ ~detected.results.timer.flags.reset_on_refresh
          /\ ~detected.results.timer.flags.frontend_only
          /\ ~detected.results.timer.flags.missing_tnc
    /\ C23_NoCountdown /\ ~C23_InRunAll =>
          /\ ~detected.timer_analysis.present
          /\ ~detected.timer_analysis.resets_on_refresh
          /\ ~detected.timer_analysis.client_side_only
          /\ ~detected.timer_analysis.fake_timer

\* run_all_detectors was given a url and a page without any countdown: it
\* returned with the timer not detected and without a fetch.
C23_Witness ==
    /\ C23_InRunAll
    /\ detected.pc = "ra_done"
    /\ C23_NoCountdown
    /\ dpage.url
    /\ detected.results.timer.ran
    /\ ~detected.results.timer.detected
    /\ detected.fetch = "none"

\* ---- C24 ----
\* Analysis t got through the scrape and the detectors, so that only its
\* database steps remain or are done.
C24_AtDatabaseSteps(t) == px[t].pc # "off" /\ px[t].after # "-"

\* The prices table holds a record of analysis t: its price under its url.
C24_PriceRecorded(t) ==
    \E i \in 1..Len(page.prices) :
        /\ page.prices[i].price = px[t].price
        /\ page.urls[page.prices[i].url_id].url = px[t].url

\* C24: when two analyses run concurrently, under every interleaving of
\* their database steps neither fails because of the other and each one's
\* price record is stored.
C24_IndependentPriceWrites ==
    \A t \in Analyses :
        C24_AtDatabaseSteps(t) =>
            /\ px[t].pc # "except"
            /\ px[t].status \in {0, 200}
            /\ (px[t].price > 0 /\ (px[t].pc = "update_scraped" \/ px[t].after = "read_history"))
                  => C24_PriceRecorded(t)

\* ---- C25 ----
\* The price records of the reader's url, oldest first.
C25_OwnRecords(t) ==
    {i \in 1..Len(page.prices) : page.urls[page.prices[i].url_id].url = px[t].url}

\* C25: the price-history query is read-only, for a known url and for one
\* never seen before: no step of GET /history changes the urls, prices or
\* jobs records; and it answers with the most recent limit price records of
\* the url, oldest first.
C25_HistoryReadOnly ==
    [][\A t \in Readers :
         px'[t] # px[t] =>
            /\ page' = page
            /\ px'[t].status # 500
            /\ px'[t].status = 200 =>
                  LET h == px'[t].history
                      own == C25_OwnRecords(t)
                  IN /\ Len(h) = IF Cardinality(own) < px[t].limit
                                  THEN Cardinality(own) ELSE px[t].limit
                     /\ \A k \in 1..Len(h) :
                           \E i \in own : /\ page.prices[i].price = h[k].price
                                          /\ page.prices[i].timestamp = h[k].ts
                     /\ \A k \in 1..(Len(h) - 1) : h[k].ts < h[k + 1].ts
                     /\ \A i \in own :
                           (\A k \in 1..Len(h) : h[k].ts # page.prices[i].timestamp)
                              => \A k \in 1..Len(h) : page.prices[i].timestamp < h[k].ts]_vars

\* ---- C26 ----
\* The order of the two-sample protocol: the first fetch and extraction,
\* the wait, the second fetch and extraction, the verdict.
C26_InOrder ==
    /\ timer.fetches <= 2
    /\ timer.extracted <= timer.fetches
    /\ timer.pc = "sleep" => timer.fetches = 1 /\ timer.extracted = 1 /\ ~timer.waited
    /\ timer.pc = "fetch2" => timer.fetches = 1 /\ timer.extracted = 1 /\ timer.waited
    /\ timer.pc = "verdict" => timer.fetches = 2 /\ timer.extracted = 2
    /\ timer.fetches = 2 => timer.waited
    /\ timer.returned => timer.pc = "done" /\ timer.extracted = 2

\* C26 (as amended): check_timer_reset follows the two-sample protocol in
\* order; the second fetch never starts before the wait has completed and
\* no suspicious verdict is produced before the second extraction; a run
\* in which no fetch fails makes exactly two fetches, and a run in which a
\* fetch fails stops at that fetch, the first or the second, and returns
\* not suspicious.
C26_TwoSampleProtocolAmended ==
    timer # << >> =>
        /\ C26_InOrder
        /\ timer.pc = "done" /\ ~timer.raised => timer.fetches = 2 /\ timer.extracted = 2
        /\ timer.pc = "done" /\ timer.raised =>
              /\ timer.fetches \in {1, 2}
              /\ timer.extracted = timer.fetches - 1
              /\ ~timer.returned

\* C26 (as stated): check_timer_reset follows the two-sample protocol in
\* order and makes exactly two fetches.
C26_TwoSampleProtocolOriginal ==
    timer # << >> =>
        /\ C26_InOrder
        /\ timer.pc = "done" => timer.fetches = 2

\* Both fetches went through, 0:02:00 and then 0:02:05 were extracted, and
\* the verdict is suspicious.
C26_Witness ==
    /\ timer # << >>
    /\ timer.pc = "done"
    /\ timer.fetches = 2 /\ timer.extracted = 2 /\ timer.waited
    /\ timer.t1 = 120 /\ timer.t2 = 125
    /\ timer.returned

\* ---- C27 ----
\* C27: for every pair of samples (t1, t2) the timer check of the /analyze
\* pipeline gives the verdict of check_timer_reset: resets_on_refresh is
\* true exactly when t2 > t1, t1 = t2 or t1 - t2 > 10.
C27_SameVerdictAsCheckTimerReset ==
    (/\ detected # << >>
     /\ detected.pc \in {"detect", "score", "store", "done"}
     /\ detected.refreshed
     /\ detected.new_timer # None) =>
        LET t1 == dpage.clock.h * 3600 + dpage.clock.m * 60 + dpage.clock.s
            t2 == detected.new_timer
        IN detected.timer_analysis.resets_on_refresh
              = (t2 > t1 \/ t1 = t2 \/ t1 - t2 > 10)

\* ---- C28 ----
\* The status changes the job lifecycle allows.
C28_Allowed(old, new) ==
    \/ new = old
    \/ old = "pending" /\ new = "running"
    \/ old = "running" /\ new \in {"done", "failed"}

\* C28: every accepted /analyze request creates one job whose status moves
\* only pending -> running -> done or failed; when the request returns the
\* job is done or failed; a finished job never changes status again;
\* finished_at is set exactly in those two states, a stored result exists
\* only for done jobs and an error message only for failed jobs.
C28_JobLifecycle ==
    [][/\ Len(page'.jobs) >= Len(page.jobs)
       /\ \A j \in 1..Len(page.jobs) :
             C28_Allowed(page.jobs[j].status, page'.jobs[j].status)
       /\ \A j \in 1..Len(page'.jobs) :
             /\ (page'.jobs[j].finished_at # None) = (page'.jobs[j].status \in {"done", "failed"})
             /\ page'.jobs[j].result_json => page'.jobs[j].status = "done"
             /\ page'.jobs[j].error_message => page'.jobs[j].status = "failed"
       /\ Len(page'.jobs) = Cardinality({t \in Analyses : px'[t].job_id # None})
       /\ \A t \in Analyses :
             px'[t].pc = "returned" =>
                /\ px'[t].job_id # None
                /\ page'.jobs[px'[t].job_id].status \in {"done", "failed"}]_vars

\* ---- C29 ----
\* The findings list holds a fake_timer finding.
C29_HasFakeTimer == \E i \in 1..Len(violations) : violations[i].type = "fake_timer"

\* C29: for every findings list detect_all produces (at most one finding per
\* detector, with the severity that detector assigns), the grade is D or F
\* only if a fake_timer finding is present; without one the score is at most
\* 4 (8 half-units) and the grade is one of A, B, C.
C29_LowGradesNeedFakeTimer ==
    detected.pc \in {"store", "done"} =>
        /\ \A i, j \in 1..Len(violations) :
              violations[i].type = violations[j].type => i = j
        /\ trust_data = calculate_trust_score(violations)
        /\ trust_data.grade \in {"D", "F"} => C29_HasFakeTimer
        /\ ~C29_HasFakeTimer =>
              /\ trust_data.score <= 8
              /\ trust_data.grade \in {"A", "B", "C"}

\* All four other detectors fire, the scarcity one with severity high, and
\* no fake timer: score 4.0, grade C.
C29_Witness ==
    /\ detected.pc = "done"
    /\ ~C29_HasFakeTimer
    /\ Len(violations) = 4
    /\ trust_data.score = 8
    /\ trust_data.grade = "C"

\* ---- C30 ----
\* The requests of client c handed to analyze with a request time in the
\* window [w, w + RATE_LIMIT_WINDOW).
C30_AdmittedInWindow(c, w) ==
    SumOver(page.admitted[c],
            {req_time \in RateTimes : w <= req_time /\ req_time < w + RATE_LIMIT_WINDOW})

\* C30: the rate limiter hands at most RATE_LIMIT_REQUESTS requests of one
\* client to analyze in any window of RATE_LIMIT_WINDOW seconds, whatever
\* the order and interleaving of the requests; only admitted requests leave
\* an entry in the store, and a client's entries come from its own requests
\* only.
C30_AtMostFivePerWindow ==
    pc = "rate" =>
        \A c \in Clients :
            /\ \A w \in RateTimes : C30_AdmittedInWindow(c, w) <= RATE_LIMIT_REQUESTS
            /\ \A req_time \in RateTimes :
                  page.store[c][req_time] <= page.admitted[c][req_time]

====
